---- MODULE Spec2Model ----
(***************************************************************************)
(* A model of @websnacksjs/i18n: the locale algebra (utils/locales.ts),    *)
(* the dictionary lookup (utils/dictionary.ts) and the I18n engine         *)
(* (i18n.ts): constructor, loadMessages with its concurrent per-namespace  *)
(* fetches through the loaded-messages cache, and the translation          *)
(* function t.                                                             *)
(*                                                                         *)
(* Strings are modelled by what the code does with them:                   *)
(*   - a locale string is the sequence of its "-"-separated subtags;       *)
(*   - a key is the sequence of its tokens, ":" and "." being tokens;      *)
(*   - a message template and a substitution are sequences of characters;  *)
(*   - a namespace name is an atomic string.                               *)
(***************************************************************************)
EXTENDS Integers, Sequences, FiniteSets, TLC

(***************************************************************************)
(* Bounds of the model.                                                    *)
(***************************************************************************)
\* longest supportedLocales list handed to the constructor
MaxDeclared == 3
\* longest namespaces list handed to loadMessages
MaxRequested == 2
\* cap on the number of fetches sent to the message source in one behaviour
MaxFetches == 3
\* most subtags of a string handed to a function of utils/locales.ts
MaxSubtags == 3
\* deepest working directory the commit-msg command is run in
MaxDepth == 2
\* cap on the length errorCauseChain lets its causeChain grow to
MaxCauseChain == 4

(***************************************************************************)
(* Generic helpers.                                                        *)
(***************************************************************************)
SeqsUpTo(S, n) == UNION {[1..k -> S] : k \in 0..n}

Range(s) == {s[i] : i \in DOMAIN s}

\* Array.prototype.filter with the predicate given as the set of kept values
RECURSIVE FilterSeq(_, _)
FilterSeq(s, keep) ==
    IF s = <<>> THEN <<>>
    ELSE IF Head(s) \in keep THEN <<Head(s)>> \o FilterSeq(Tail(s), keep)
    ELSE FilterSeq(Tail(s), keep)

\* the insertion order of `new Set(array)`: first occurrences, in order
RECURSIVE Dedupe(_)
Dedupe(s) ==
    IF s = <<>> THEN <<>>
    ELSE LET d == Dedupe(SubSeq(s, 1, Len(s) - 1))
         IN  IF s[Len(s)] \in Range(d) THEN d ELSE Append(d, s[Len(s)])

(***************************************************************************)
(* Locale algebra: Intl.Locale as used by utils/locales.ts.                *)
(***************************************************************************)
\* the shape of one subtag, which is all the BCP 47 grammar looks at
SubtagShape(tag) ==
    CASE tag \in {"en", "fr", "de", "zh", "FR", "US", "DE", "CN", "TW", "GB"} -> "alpha2"
      [] tag \in {"UTF"} -> "alpha3"
      [] tag \in {"Latn", "Arab", "Hans", "Hant"} -> "alpha4"
      [] tag \in {"419"} -> "digit3"
      [] tag \in {"valencia"} -> "variant"
      [] OTHER -> "malformed"     \* "en_US", "GB@euro", "8", ""

LowerCase(tag) ==
    CASE tag = "FR" -> "fr" [] tag = "DE" -> "de" [] OTHER -> tag

UpperCase(tag) ==
    CASE tag = "fr" -> "FR" [] tag = "de" -> "DE" [] OTHER -> tag

\* unicode_locale_id: language ["-" script] ["-" region] ("-" variant)*
HasScript(locale) == Len(locale) >= 2 /\ SubtagShape(locale[2]) = "alpha4"

RegionIndex(locale) == IF HasScript(locale) THEN 3 ELSE 2

HasRegion(locale) ==
    /\ Len(locale) >= RegionIndex(locale)
    /\ SubtagShape(locale[RegionIndex(locale)]) \in {"alpha2", "digit3"}

VariantsFrom(locale) ==
    RegionIndex(locale) + (IF HasRegion(locale) THEN 1 ELSE 0)

\* new Intl.Locale(locale) does not throw
isValidRfc5646Locale(locale) ==
    /\ Len(locale) >= 1
    /\ SubtagShape(locale[1]) \in {"alpha2", "alpha3"}
    /\ \A i \in VariantsFrom(locale)..Len(locale) : SubtagShape(locale[i]) = "variant"

\* the parsed, case-canonical fields of a valid locale; "" is an absent field
LocaleFields(locale) ==
    [language |-> LowerCase(locale[1]),
     script   |-> IF HasScript(locale) THEN locale[2] ELSE "",
     region   |-> IF HasRegion(locale)
                  THEN UpperCase(locale[RegionIndex(locale)]) ELSE "",
     variants |-> SubSeq(locale, VariantsFrom(locale), Len(locale))]

\* Intl.Locale.prototype.toString
LocaleToString(f) ==
    <<f.language>>
      \o (IF f.script = "" THEN <<>> ELSE <<f.script>>)
      \o (IF f.region = "" THEN <<>> ELSE <<f.region>>)
      \o f.variants

\* CLDR likely subtags, the rows for the languages of the model
LikelySubtags ==
    {[language |-> "en", script |-> "",     region |-> "",   to |-> <<"Latn", "US">>],
     [language |-> "fr", script |-> "",     region |-> "",   to |-> <<"Latn", "FR">>],
     [language |-> "de", script |-> "",     region |-> "",   to |-> <<"Latn", "DE">>],
     [language |-> "zh", script |-> "",     region |-> "",   to |-> <<"Hans", "CN">>],
     [language |-> "zh", script |-> "",     region |-> "TW", to |-> <<"Hant", "TW">>],
     [language |-> "zh", script |-> "Hant", region |-> "",   to |-> <<"Hant", "TW">>]}

LikelyFor(language, script, region) ==
    {row \in LikelySubtags :
        row.language = language /\ row.script = script /\ row.region = region}

\* an "Add Likely Subtags" that fills one missing field at a time
AddLikelySubtagsOneField(f) ==
    LET rows == IF LikelyFor(f.language, "", f.region) # {}
                THEN LikelyFor(f.language, "", f.region)
                ELSE IF LikelyFor(f.language, f.script, "") # {}
                THEN LikelyFor(f.language, f.script, "")
                ELSE LikelyFor(f.language, "", "")
    IN  IF rows = {} THEN f
        ELSE LET to == (CHOOSE row \in rows : TRUE).to
             IN  IF f.script = "" THEN [f EXCEPT !.script = to[1]]
                 ELSE [f EXCEPT !.region = IF f.region = "" THEN to[2] ELSE f.region]

\* "Add Likely Subtags": the first of language_region, language_script and
\* language that has a row fills the fields the locale leaves out
AddLikelySubtags(f) ==
    LET rows == IF LikelyFor(f.language, "", f.region) # {}
                THEN LikelyFor(f.language, "", f.region)
                ELSE IF LikelyFor(f.language, f.script, "") # {}
                THEN LikelyFor(f.language, f.script, "")
                ELSE LikelyFor(f.language, "", "")
    IN  IF rows = {} THEN f
        ELSE LET to == (CHOOSE row \in rows : TRUE).to
             IN  [f EXCEPT !.script = IF f.script = "" THEN to[1] ELSE f.script,
                           !.region = IF f.region = "" THEN to[2] ELSE f.region]

\* new Intl.Locale(locale).maximize().toString(), for a valid locale
maximizeLocale(locale) == LocaleToString(AddLikelySubtags(LocaleFields(locale)))

isMaximizedLocale(locale) == locale = maximizeLocale(locale)

(***************************************************************************)
(* JSON values and the dictionary model (utils/dictionary.ts).             *)
(***************************************************************************)
Undefined == [type |-> "undefined"]
JsonNull == [type |-> "null"]
JsonString(chars) == [type |-> "string", chars |-> chars]
JsonNumber(n) == [type |-> "number", n |-> n]
JsonArray(items) == [type |-> "array", items |-> items]
\* entries: a function from property names (token sequences) to values
JsonObject(entries) == [type |-> "object", entries |-> entries]

\* typeof value === "object" && value !== null  (true of arrays too)
isDictionary(value) == value.type \in {"object", "array"}

\* JavaScript truthiness of a value
Truthy(value) ==
    CASE value.type \in {"undefined", "null"} -> FALSE
      [] value.type = "string" -> value.chars # <<>>
      [] value.type = "number" -> value.n # 0
      [] OTHER -> TRUE

\* value[name]: reading a property of undefined or null throws a TypeError;
\* the names of the model are never indices or inherited properties
CanReadProperty(value) == value.type \notin {"undefined", "null"}

GetProperty(value, name) ==
    IF value.type = "object" /\ name \in DOMAIN value.entries
    THEN value.entries[name]
    ELSE Undefined

\* String.prototype.split(".") on a token sequence
RECURSIVE SplitDots(_)
SplitDots(tokens) ==
    IF tokens = <<>> THEN << <<>> >>
    ELSE LET rest == SplitDots(Tail(tokens))
         IN  IF Head(tokens) = "." THEN << <<>> >> \o rest
             ELSE << <<Head(tokens)>> \o Head(rest) >> \o Tail(rest)

\* Array.prototype.join(".")
RECURSIVE JoinDots(_)
JoinDots(segments) ==
    IF segments = <<>> THEN <<>>
    ELSE IF Len(segments) = 1 THEN Head(segments)
    ELSE Head(segments) \o <<".">> \o JoinDots(Tail(segments))

Returned(value) == [threw |-> FALSE, value |-> value]
Threw(error) == [threw |-> TRUE, error |-> error]

TypeError(what) == [kind |-> "TypeError", what |-> what]

\* lookupValue(dictionary, key): descends one segment per recursion; the
\* result is whatever the last property read gives, a string or not
RECURSIVE lookupValue(_, _)
lookupValue(dictionary, key) ==
    LET parts  == SplitDots(key)
        prefix == Head(parts)
        rest   == Tail(parts)
    IN  IF ~CanReadProperty(dictionary)
        THEN Threw(TypeError("cannot read properties of undefined"))
        ELSE IF rest = <<>>
        THEN Returned(GetProperty(dictionary, prefix))
        ELSE lookupValue(GetProperty(dictionary, prefix), JoinDots(rest))

(***************************************************************************)
(* Placeholder substitution (i18n.ts, substitutePlaceholders).             *)
(***************************************************************************)
\* the character "." of the regular expression matches all but line ends
NewLine == "NL"

IsOpen(message, i) ==
    i + 1 <= Len(message) /\ message[i] = "{" /\ message[i + 1] = "{"

IsClose(message, j) ==
    j + 1 <= Len(message) /\ message[j] = "}" /\ message[j + 1] = "}"

\* where "}}" may close a match of /{{(.+)}}/ that opens at i
ClosesFor(message, i) ==
    {j \in (i + 3)..Len(message) :
        /\ IsClose(message, j)
        /\ \A k \in (i + 2)..(j - 1) : message[k] # NewLine}

\* ".+" is greedy: of the "}}" that may close the match, the last one does
MatchClose(message, i) ==
    CHOOSE j \in ClosesFor(message, i) : \A k \in ClosesFor(message, i) : k <= j

MatchesAt(message, i) == IsOpen(message, i) /\ ClosesFor(message, i) # {}

\* substitutions?.[placeholder]
SubstitutionFor(substitutions, placeholder) ==
    IF placeholder \in DOMAIN substitutions
    THEN JsonString(substitutions[placeholder])
    ELSE Undefined

MissingSubstitution(placeholder) ==
    [kind |-> "missingSubstitution", placeholder |-> placeholder]

\* message.replaceAll(/{{(.+)}}/g, callback) scanning from position `from`
RECURSIVE ReplaceFrom(_, _, _)
ReplaceFrom(message, substitutions, from) ==
    IF from > Len(message) THEN Returned(<<>>)
    ELSE IF ~MatchesAt(message, from)
    THEN LET rest == ReplaceFrom(message, substitutions, from + 1)
         IN  IF rest.threw THEN rest
             ELSE Returned(<<message[from]>> \o rest.value)
    ELSE LET close       == MatchClose(message, from)
             placeholder == SubSeq(message, from + 2, close - 1)
             found       == SubstitutionFor(substitutions, placeholder)
         IN  IF ~Truthy(found)
             THEN Threw(MissingSubstitution(placeholder))
             ELSE LET rest == ReplaceFrom(message, substitutions, close + 2)
                  IN  IF rest.threw THEN rest
                      ELSE Returned(found.chars \o rest.value)

substitutePlaceholders(message, substitutions) ==
    ReplaceFrom(message, substitutions, 1)

(***************************************************************************)
(* The inputs the model draws from.                                        *)
(***************************************************************************)
\* locale strings a configuration may declare
DeclaredLocaleInputs ==
    {<<"en">>, <<"fr">>, <<"fr", "Arab">>, <<"fr", "FR">>,
     <<"en_US">>, <<"en", "GB@euro">>}

\* namespace names; "my-ns" is one that is not made of letters only
NamespaceInputs == {"drama", "my-ns"}

\* [a-z]+ with the flag i: the words of the inputs are made of letters, but
\* for "my-ns" and the separators of a key
IsLetters(word) == word \notin {"my-ns", ":", ".", ""}

\* the marker of an argument the caller leaves out
Omitted == <<"(omitted)">>

(***************************************************************************)
(* Resource locators: a URL is its protocol and the text of its path and   *)
(* of its query, each a sequence of pieces; ":locale" and ":namespace"     *)
(* are pieces of their own.                                                *)
(***************************************************************************)
Url(protocol, pathname, search) ==
    [protocol |-> protocol, pathname |-> pathname, search |-> search]

\* the marker of a messagesUrlTemplate option left out
OmittedUrl == Url("(omitted)", <<>>, <<>>)

\* the locator of the test fixtures, tests/fixtures.ts
FixtureTemplate ==
    Url("file:", <<"/fixtures/base/", ":locale", "/", ":namespace", ".json">>, <<>>)

\* url.toString().includes(placeholder)
UrlIncludes(url, placeholder) ==
    placeholder \in Range(url.pathname) \cup Range(url.search)

\* the text of a locale string: its subtags joined by "-"
RECURSIVE LocaleText(_)
LocaleText(locale) ==
    IF Len(locale) <= 1 THEN locale
    ELSE <<Head(locale), "-">> \o LocaleText(Tail(locale))

\* String.prototype.replaceAll(placeholder, text) on a sequence of pieces
RECURSIVE ReplaceAllPieces(_, _, _)
ReplaceAllPieces(pieces, placeholder, text) ==
    IF pieces = <<>> THEN <<>>
    ELSE (IF Head(pieces) = placeholder THEN text ELSE <<Head(pieces)>>)
            \o ReplaceAllPieces(Tail(pieces), placeholder, text)

\* a #fetchMessages that puts the maximized locale into the locator
SourceUrlMaximized(template, declaredAs, namespace) ==
    [template EXCEPT !.pathname =
        ReplaceAllPieces(
            ReplaceAllPieces(template.pathname, ":locale",
                             LocaleText(maximizeLocale(declaredAs))),
            ":namespace", <<namespace>>)]

\* the sourceUrl of #fetchMessages: only the pathname is rewritten
SourceUrl(template, declaredAs, namespace) ==
    [template EXCEPT !.pathname =
        ReplaceAllPieces(
            ReplaceAllPieces(template.pathname, ":locale", LocaleText(declaredAs)),
            ":namespace", <<namespace>>)]

\* process.cwd() / Deno.cwd(): the segments of the working directory, which
\* is not the root and so ends without a "/"
Cwd == <<"/work", "/app">>

\* new URL("./" + relative, "file://" + directory): a relative reference
\* replaces the last segment of the base path
ResolveRelative(directory, relative) ==
    SubSeq(directory, 1, Len(directory) - 1) \o <<"/">> \o relative

\* guessMessagesUrlPatternFromEnv, by the globals the runtime defines; the
\* server templates read ":namespaces.json", the token followed by "s.json"
guessMessagesUrlPatternFromEnv(runtime) ==
    CASE runtime = "browser" ->
            Returned(Url("https:", <<"/messages/", ":locale", "/", ":namespace", ".json">>, <<>>))
      [] runtime \in {"node", "deno"} ->
            Returned(Url("file:",
                         ResolveRelative(Cwd, <<"messages/", ":locale", "/",
                                                ":namespace", "s.json">>),
                         <<>>))
      [] OTHER -> Threw([kind |-> "unknownRuntime"])

(***************************************************************************)
(* Constructor-time validation (i18n.ts).                                  *)
(***************************************************************************)
InvalidLocalesOf(supported) ==
    FilterSeq(supported, {l \in Range(supported) : ~isValidRfc5646Locale(l)})

\* a validateSupportedLocales that reports the first invalid locale only
validateSupportedLocalesFirstOnly(supported) ==
    IF Len(supported) = 0
    THEN Threw([kind |-> "emptySupportedLocales"])
    ELSE IF Len(InvalidLocalesOf(supported)) > 0
    THEN Threw([kind |-> "invalidSupportedLocales",
                locales |-> SubSeq(InvalidLocalesOf(supported), 1, 1)])
    ELSE Returned(Undefined)

validateSupportedLocales(supported) ==
    IF Len(supported) = 0
    THEN Threw([kind |-> "emptySupportedLocales"])
    ELSE IF Len(InvalidLocalesOf(supported)) > 0
    THEN Threw([kind |-> "invalidSupportedLocales",
                locales |-> InvalidLocalesOf(supported)])
    ELSE Returned(Undefined)

\* a validateMessagesUrlTemplate that reports the first missing placeholder only
validateMessagesUrlTemplateFirstOnly(template) ==
    LET missingPlaceholders ==
            FilterSeq(<<":locale", ":namespace">>,
                      {ph \in {":locale", ":namespace"} : ~UrlIncludes(template, ph)})
    IN  IF Len(missingPlaceholders) > 0
        THEN Threw([kind |-> "missingPlaceholders",
                    placeholders |-> SubSeq(missingPlaceholders, 1, 1)])
        ELSE Returned(Undefined)

validateMessagesUrlTemplate(template) ==
    LET missingPlaceholders ==
            FilterSeq(<<":locale", ":namespace">>,
                      {ph \in {":locale", ":namespace"} : ~UrlIncludes(template, ph)})
    IN  IF Len(missingPlaceholders) > 0
        THEN Threw([kind |-> "missingPlaceholders", placeholders |-> missingPlaceholders])
        ELSE Returned(Undefined)

\* a constructor that keys the supported locales by the strings as declared
SupportedLocalesAsDeclared(supported) ==
    [i \in DOMAIN Dedupe(supported) |->
        [locale |-> Dedupe(supported)[i], declaredAs |-> Dedupe(supported)[i]]]

\* a constructor that keeps, of the declared locales of one maximized form,
\* the one declared first
RECURSIVE SupportedLocalesFirstDeclared(_)
SupportedLocalesFirstDeclared(supported) ==
    IF supported = <<>> THEN <<>>
    ELSE LET before == SupportedLocalesFirstDeclared(SubSeq(supported, 1, Len(supported) - 1))
             last   == supported[Len(supported)]
             entry  == [locale |-> maximizeLocale(last), declaredAs |-> last]
         IN  IF \E i \in DOMAIN before : before[i].locale = entry.locale
             THEN before
             ELSE Append(before, entry)

\* Object.fromEntries over [maximizeLocale(locale), {declaredAs: locale}]:
\* a key keeps the place of its first entry and the value of its last
RECURSIVE SupportedLocalesOf(_)
SupportedLocalesOf(supported) ==
    IF supported = <<>> THEN <<>>
    ELSE LET before == SupportedLocalesOf(SubSeq(supported, 1, Len(supported) - 1))
             last   == supported[Len(supported)]
             entry  == [locale |-> maximizeLocale(last), declaredAs |-> last]
         IN  IF \E i \in DOMAIN before : before[i].locale = entry.locale
             THEN [i \in DOMAIN before |->
                      IF before[i].locale = entry.locale THEN entry ELSE before[i]]
             ELSE Append(before, entry)

(***************************************************************************)
(* The state: one I18n engine, the loadMessages calls made on it, the      *)
(* fetches sent to the message source, and the last call of a translation  *)
(* function.                                                               *)
(***************************************************************************)
VARIABLES
    constructed,          \* "no", "yes", or "threw": the outcome of new I18n(...)
    ctor,                 \* the constructor's arguments and the error it threw
    supportedLocales,     \* #supportedLocales, in key order
    namespaces,           \* #namespaces
    loadedMessages,       \* #loadedMessages
    messagesUrlTemplate,  \* #messagesUrlTemplate
    calls,                \* the loadMessages calls, by caller
    fetchCount,           \* fetches sent to the source, per (locale, namespace)
    tOut,                 \* the last call t(key, substitutions) and its outcome
    localeOut,            \* the last call of a function of utils/locales.ts and its outcome
    cwd,                  \* commit-msg: process.cwd(), as the names of its directories
    configFiles,          \* commit-msg: the directories that hold a conventional.config.js,
                          \*             with what the file is
    messageFile,          \* commit-msg: the content of the message file
    pc,                   \* commit-msg: the await or loop the command is at
    configDir,            \* findConfig: configDir.pathname, split at "/"
    config,               \* main: config
    commitMessage,        \* main: commitMessage
    thrown,               \* the error main() rejected with
    nextCause,            \* errorCauseChain: cause
    causeChain,           \* errorCauseChain: causeChain
    exitCode,             \* the exit code of the command
    stderr                \* what the command wrote to stderr

i18nVars == <<constructed, ctor, supportedLocales, namespaces, loadedMessages,
              messagesUrlTemplate, calls, fetchCount, tOut>>

commandVars == <<cwd, configFiles, messageFile, pc, configDir, config, commitMessage,
                 thrown, nextCause, causeChain, exitCode, stderr>>

\* what the engine's operations leave alone: the calls of the functions of
\* utils/locales.ts and the commit-msg command
outsideEngine == <<localeOut, commandVars>>

vars == <<constructed, ctor, supportedLocales, namespaces, loadedMessages,
          messagesUrlTemplate, calls, fetchCount, tOut, localeOut,
          cwd, configFiles, messageFile, pc, configDir, config, commitMessage,
          thrown, nextCause, causeChain, exitCode, stderr>>

engineVars == <<constructed, ctor, supportedLocales, namespaces, messagesUrlTemplate>>

\* the callers of loadMessages; each has at most one call under way, and
\* the initial state says how many callers there are
Callers == DOMAIN calls

AllNamespaces == NamespaceInputs \cup {"common", "extra"}

None == [status |-> "none"]

\* no function of utils/locales.ts has been called by itself
NoLocaleCall == localeOut = None

\* the commit-msg command is not run
NoCommand ==
    /\ cwd = <<>>
    /\ configFiles = <<>>
    /\ messageFile = <<>>
    /\ pc = "idle"
    /\ configDir = <<>>
    /\ config = None
    /\ commitMessage = None
    /\ thrown = None
    /\ nextCause = None
    /\ causeChain = <<>>
    /\ exitCode = None
    /\ stderr = <<>>

SupportedKeys == {supportedLocales[i].locale : i \in DOMAIN supportedLocales}

\* supportedLocales(): Object.keys(this.#supportedLocales)
supportedLocalesList == [i \in DOMAIN supportedLocales |-> supportedLocales[i].locale]

\* this.#supportedLocales[maximizedLocale]?.declaredAs, <<>> when there is none
DeclaredAsOf(maximizedLocale) ==
    IF maximizedLocale \in SupportedKeys
    THEN (CHOOSE e \in Range(supportedLocales) : e.locale = maximizedLocale).declaredAs
    ELSE <<>>

TotalFetches == 
    LET RECURSIVE Sum(_)
        Sum(S) == IF S = {} THEN 0
                  ELSE LET x == CHOOSE x \in S : TRUE
                       IN  fetchCount[x] + Sum(S \ {x})
    IN  Sum(DOMAIN fetchCount)

\* no engine has been constructed
NotConstructed ==
    /\ constructed = "no"
    /\ ctor = None
    /\ supportedLocales = <<>>
    /\ namespaces = {}
    /\ loadedMessages = <<>>
    /\ messagesUrlTemplate = Url("", <<>>, <<>>)
    /\ calls = <<None>>
    /\ fetchCount = <<>>
    /\ tOut = None

Init ==
    /\ NotConstructed
    /\ NoLocaleCall
    /\ NoCommand

(***************************************************************************)
(* new I18n({supportedLocales, namespaces, messagesUrlTemplate})           *)
(***************************************************************************)
\* the configurations the model constructs an engine from
TemplateInputs ==
    {FixtureTemplate,
     Url("https:", <<"/messages/", ":locale", "/", ":namespace">>, <<>>),
     Url("file:", <<"/some/path/", ":namespace">>, <<>>),
     Url("file:", <<"/some/path/", ":locale">>, <<>>),
     Url("file:", <<"/some/path">>, <<>>),
     OmittedUrl}

RuntimeInputs == {"node", "browser", "unknown"}

NamespaceListInputs == {<<>>, <<"drama">>, <<"drama", "my-ns">>}

\* the constructor body: the error it throws, or the fields it sets
Construct(options, runtime) ==
    LET checked == validateSupportedLocales(options.supportedLocales)
        guessed == IF options.messagesUrlTemplate = OmittedUrl
                   THEN guessMessagesUrlPatternFromEnv(runtime)
                   ELSE Returned(options.messagesUrlTemplate)
    IN  IF checked.threw THEN checked
        ELSE IF guessed.threw THEN guessed
        ELSE IF validateMessagesUrlTemplate(guessed.value).threw
        THEN validateMessagesUrlTemplate(guessed.value)
        ELSE Returned(
            [supportedLocales    |-> SupportedLocalesOf(options.supportedLocales),
             namespaces          |-> Range(options.namespaces),
             messagesUrlTemplate |-> guessed.value])

New(options, runtime) ==
    /\ constructed = "no"
    /\ LET made == Construct(options, runtime)
       IN  IF made.threw
           THEN /\ constructed' = "threw"
                /\ ctor' = [status |-> "threw", options |-> options,
                            runtime |-> runtime, error |-> made.error]
                /\ UNCHANGED <<supportedLocales, namespaces, loadedMessages,
                               messagesUrlTemplate, fetchCount>>
           ELSE /\ constructed' = "yes"
                /\ ctor' = [status |-> "returned", options |-> options, runtime |-> runtime]
                /\ supportedLocales' = made.value.supportedLocales
                /\ namespaces' = made.value.namespaces
                /\ messagesUrlTemplate' = made.value.messagesUrlTemplate
                /\ loadedMessages' =
                      [locale \in {e.locale : e \in Range(made.value.supportedLocales)} |->
                          [ns \in AllNamespaces |-> Undefined]]
                /\ fetchCount' =
                      [pair \in {e.locale : e \in Range(made.value.supportedLocales)}
                                  \X AllNamespaces |-> 0]
    /\ UNCHANGED <<calls, tOut, outsideEngine>>

(***************************************************************************)
(* The message source: what a read of a locator may give.                  *)
(***************************************************************************)
\* the messages file at a locator; files of different locators differ in
\* the message "where"
FileBody(url, namespace) ==
    IF namespace = "common"
    THEN JsonObject(
            (<<"hello">>  :> JsonString(<<"H", "i", " ", "{", "{", "a", "}", "}", "!">>)) @@
            (<<"pair">>   :> JsonString(<<"{", "{", "a", "}", "}", "+", "{", "{", "b", "}", "}">>)) @@
            (<<"lines">>  :> JsonString(<<"{", "{", "a", "}", "}", NewLine, "{", "{", "b", "}", "}">>)) @@
            (<<"plain">>  :> JsonString(<<"o", "k">>)) @@
            (<<"empty">>  :> JsonString(<<>>)) @@
            (<<"nested">> :> JsonObject(<<"leaf">> :> JsonString(<<"x">>))) @@
            (<<"where">>  :> JsonString(url.pathname)))
    ELSE JsonObject(
            (<<"title">>  :> JsonString(<<"t">>)) @@
            (<<"where">>  :> JsonString(url.pathname)))

\* the outcomes of reading a locator: a failure of the read, or a body
\* that parses as JSON to some value
SourceOutcomes(url, namespace) ==
    {Threw(IF url.protocol = "file:"
           THEN [kind |-> "ENOENT", url |-> url]
           ELSE [kind |-> "badResponse", status |-> 404]),
     Threw([kind |-> "SyntaxError"]),
     Returned(JsonString(<<"x">>)),
     Returned(JsonNull),
     Returned(JsonArray(<<>>)),
     Returned(FileBody(url, namespace))}

(***************************************************************************)
(* loadMessages({locale, namespaces}), up to its first await.              *)
(***************************************************************************)
\* the globals #detectLocale reads: document.documentElement.lang and
\* navigator.languages; hasDocument is false outside a browser
ServerEnv == [hasDocument |-> FALSE, lang |-> <<>>, languages |-> <<>>]

EnvInputs ==
    {ServerEnv,
     [hasDocument |-> TRUE, lang |-> <<"fr">>, languages |-> <<>>],
     [hasDocument |-> TRUE, lang |-> <<"de">>, languages |-> <<>>],
     [hasDocument |-> TRUE, lang |-> <<"de">>, languages |-> << <<"de">>, <<"fr">> >>],
     [hasDocument |-> TRUE, lang |-> <<>>, languages |-> << <<"fr">> >>]}

\* a #validateNamespaces that reports the first undeclared namespace only
validateNamespacesFirstOnly(requested) ==
    LET undeclaredNamespaces ==
            FilterSeq(Dedupe(requested), Range(requested) \ namespaces)
    IN  IF Len(undeclaredNamespaces) > 0
        THEN Threw([kind |-> "undeclaredNamespaces",
                    namespaces |-> SubSeq(undeclaredNamespaces, 1, 1)])
        ELSE Returned(Undefined)

\* #validateNamespaces: new Set(namespaces).difference(this.#namespaces)
validateNamespaces(requested) ==
    LET undeclaredNamespaces ==
            FilterSeq(Dedupe(requested), Range(requested) \ namespaces)
    IN  IF Len(undeclaredNamespaces) > 0
        THEN Threw([kind |-> "undeclaredNamespaces", namespaces |-> undeclaredNamespaces])
        ELSE Returned(Undefined)

\* isSupportedLocale(value): maximizeLocale throws on an invalid value
isSupportedLocale(value) ==
    IF ~isValidRfc5646Locale(value)
    THEN Threw([kind |-> "RangeError", locale |-> value])
    ELSE Returned(maximizeLocale(value) \in SupportedKeys)

\* #detectLocale; navigator.languages.filter(this.isSupportedLocale) calls
\* the method without its receiver, so its first call throws a TypeError,
\* after maximizeLocale has thrown or returned
detectLocale(env) ==
    IF ~env.hasDocument
    THEN Threw([kind |-> "nonBrowserEnvironment",
                message |-> <<"attempted to detect locale in", "non-browser environment">>])
    ELSE LET langSupported == isSupportedLocale(env.lang)
         IN  IF langSupported.threw THEN langSupported
             ELSE IF langSupported.value THEN Returned(maximizeLocale(env.lang))
             ELSE IF env.languages # <<>>
             THEN IF ~isValidRfc5646Locale(Head(env.languages))
                  THEN Threw([kind |-> "RangeError", locale |-> Head(env.languages)])
                  ELSE Threw(TypeError("cannot read private member of undefined"))
             ELSE Threw([kind |-> "noSupportedLocaleDetected",
                         lang |-> env.lang, languages |-> env.languages])

\* a #normalizeLocale that returns the locale as it was requested
normalizeLocaleAsRequested(locale) ==
    IF ~isValidRfc5646Locale(locale)
    THEN Threw([kind |-> "invalidLocale", locale |-> locale])
    ELSE IF maximizeLocale(locale) \notin SupportedKeys
    THEN Threw([kind |-> "noDeclaredLocale",
                maximized |-> maximizeLocale(locale), requested |-> locale])
    ELSE Returned(locale)

\* a #normalizeLocale that falls back to a supported locale of the same
\* language when the maximized locale is not supported
normalizeLocaleByLanguage(locale) ==
    LET sameLanguage == {k \in SupportedKeys : k[1] = maximizeLocale(locale)[1]}
    IN  IF ~isValidRfc5646Locale(locale)
        THEN Threw([kind |-> "invalidLocale", locale |-> locale])
        ELSE IF maximizeLocale(locale) \in SupportedKeys
        THEN Returned(maximizeLocale(locale))
        ELSE IF sameLanguage # {}
        THEN Returned(CHOOSE k \in sameLanguage : TRUE)
        ELSE Threw([kind |-> "noDeclaredLocale",
                    maximized |-> maximizeLocale(locale), requested |-> locale])

\* #normalizeLocale
normalizeLocale(locale) ==
    IF ~isValidRfc5646Locale(locale)
    THEN Threw([kind |-> "invalidLocale", locale |-> locale])
    ELSE IF maximizeLocale(locale) \notin SupportedKeys
    THEN Threw([kind |-> "noDeclaredLocale",
                maximized |-> maximizeLocale(locale), requested |-> locale])
    ELSE Returned(maximizeLocale(locale))

\* the synchronous part of loadMessages before #loadMessages: the error it
\* rejects with, or the normalized locale
ResolveRequest(locale, requested, env) ==
    LET validated == validateNamespaces(requested)
        detected  == IF locale = Omitted THEN detectLocale(env) ELSE Returned(locale)
    IN  IF validated.threw THEN validated
        ELSE IF detected.threw THEN detected
        ELSE normalizeLocale(detected.value)

\* a #fetchMessages that never looks in the cache
StartFetchesUncached(maximizedLocale, declaredAs, requested) ==
    LET wanted == Append(requested, "common")
    IN  [i \in DOMAIN wanted |->
            [namespace |-> wanted[i], state |-> "inflight", value |-> Undefined,
             url |-> SourceUrl(messagesUrlTemplate, declaredAs, wanted[i])]]

\* #fetchMessages up to its first await, for each of [...namespaces, "common"]:
\* a namespace found in the cache is answered from it, any other is fetched
StartFetches(maximizedLocale, declaredAs, requested) ==
    LET wanted == Append(requested, "common")
    IN  [i \in DOMAIN wanted |->
            LET cached == loadedMessages[maximizedLocale][wanted[i]]
            IN  IF Truthy(cached)
                THEN [namespace |-> wanted[i], state |-> "fulfilled", value |-> cached,
                      url |-> OmittedUrl]
                ELSE [namespace |-> wanted[i], state |-> "inflight", value |-> Undefined,
                      url |-> SourceUrl(messagesUrlTemplate, declaredAs, wanted[i])]]

InFlight(fetches) == {i \in DOMAIN fetches : fetches[i].state = "inflight"}

\* the namespaces a call found in the cache when it started
CacheHits(fetches) ==
    {fetches[i].namespace : i \in {j \in DOMAIN fetches : fetches[j].url = OmittedUrl}}

\* a #loadMessages that leaves `common` out of what it returns
MessagesOfRequested(fetches) ==
    [ns \in {fetches[i].namespace : i \in DOMAIN fetches} \ {"common"} |->
        LET last == CHOOSE i \in DOMAIN fetches :
                        /\ fetches[i].namespace = ns
                        /\ \A j \in DOMAIN fetches : fetches[j].namespace = ns => j <= i
        IN  fetches[last].value]

\* Object.fromEntries(await Promise.all(...)): of two entries of one
\* namespace the later one stays
MessagesOf(fetches) ==
    [ns \in {fetches[i].namespace : i \in DOMAIN fetches} |->
        LET last == CHOOSE i \in DOMAIN fetches :
                        /\ fetches[i].namespace = ns
                        /\ \A j \in DOMAIN fetches : fetches[j].namespace = ns => j <= i
        IN  fetches[last].value]

Started(fetches, pair) ==
    Cardinality({i \in InFlight(fetches) : fetches[i].namespace = pair[2]})

LoadMessages(c, locale, requested, env) ==
    /\ constructed = "yes"
    /\ calls[c].status # "pending"
    /\ InFlight(IF calls[c].status = "none" THEN <<>> ELSE calls[c].fetches) = {}
    /\ LET request == [locale |-> locale, namespaces |-> requested, env |-> env]
           resolved == ResolveRequest(locale, requested, env)
       IN  IF resolved.threw
           THEN /\ calls' = [calls EXCEPT ![c] =
                       [status |-> "rejected", request |-> request,
                        error |-> resolved.error, fetches |-> <<>>]]
                /\ UNCHANGED fetchCount
           ELSE LET maximizedLocale == maximizeLocale(resolved.value)
                    declaredAs == DeclaredAsOf(maximizedLocale)
                    fetches == StartFetches(maximizedLocale, declaredAs, requested)
                IN  IF declaredAs = <<>>
                    THEN /\ calls' = [calls EXCEPT ![c] =
                                [status |-> "rejected", request |-> request,
                                 error |-> [kind |-> "noDeclaredLocale",
                                            maximized |-> maximizedLocale,
                                            requested |-> resolved.value],
                                 fetches |-> <<>>]]
                         /\ UNCHANGED fetchCount
                    ELSE /\ TotalFetches + Cardinality(InFlight(fetches)) <= MaxFetches
                         /\ fetchCount' =
                               [pair \in DOMAIN fetchCount |->
                                   IF pair[1] = maximizedLocale
                                   THEN fetchCount[pair] + Started(fetches, pair)
                                   ELSE fetchCount[pair]]
                         /\ calls' = [calls EXCEPT ![c] =
                               IF InFlight(fetches) = {}
                               THEN [status |-> "resolved", request |-> request,
                                     locale |-> resolved.value,
                                     messages |-> MessagesOf(fetches),
                                     hits |-> CacheHits(fetches), fetches |-> <<>>]
                               ELSE [status |-> "pending", request |-> request,
                                     locale |-> resolved.value,
                                     hits |-> CacheHits(fetches), fetches |-> fetches]]
    /\ tOut' = None
    /\ UNCHANGED <<engineVars, loadedMessages, outsideEngine>>

(***************************************************************************)
(* #fetchMessages after its awaits: one fetch in flight settles.           *)
(***************************************************************************)
\* the rest of #fetchMessages once the read has settled with `outcome`:
\* the error it throws, or the messages it stores and returns
FetchResult(url, outcome) ==
    IF outcome.threw THEN outcome
    ELSE IF ~isDictionary(outcome.value)
    THEN Threw([kind |-> "malformedMessages", url |-> url, got |-> outcome.value])
    ELSE outcome

\* the .catch of #loadMessages
FailedToLoad(cause) == [kind |-> "failedToLoadMessages", cause |-> cause]

\* a #fetchMessages that stores an empty dictionary when the fetch fails
StoreMessagesOnFailure(cache, locale, namespace, result) ==
    IF result.threw THEN [cache EXCEPT ![locale][namespace] = JsonObject(<<>>)]
    ELSE [cache EXCEPT ![locale][namespace] = result.value]

\* a #fetchMessages that stores every namespace under `common`
StoreMessagesUnderCommon(cache, locale, namespace, result) ==
    IF result.threw THEN cache
    ELSE [cache EXCEPT ![locale]["common"] = result.value]

\* the cache after a fetch of (locale, namespace) has settled with `result`
StoreMessages(cache, locale, namespace, result) ==
    IF result.threw THEN cache
    ELSE [cache EXCEPT ![locale][namespace] = result.value]

\* a #loadMessages whose rejection is that of the fetch that failed last
SettleFetchLastRejection(c, i, outcome) ==
    LET call    == calls[c]
        fetch   == call.fetches[i]
        result  == FetchResult(fetch.url, outcome)
        settled == [call.fetches EXCEPT ![i] =
                      IF result.threw
                      THEN [@ EXCEPT !.state = "rejected"]
                      ELSE [@ EXCEPT !.state = "fulfilled", !.value = result.value]]
    IN  /\ loadedMessages' =
              StoreMessages(loadedMessages, maximizeLocale(call.locale),
                            fetch.namespace, result)
        /\ calls' = [calls EXCEPT ![c] =
              IF result.threw
              THEN [status |-> "rejected", request |-> call.request,
                    locale |-> call.locale, hits |-> call.hits,
                    error |-> FailedToLoad(result.error), fetches |-> settled]
              ELSE IF call.status # "pending"
              THEN [call EXCEPT !.fetches = settled]
              ELSE IF InFlight(settled) = {}
              THEN [status |-> "resolved", request |-> call.request,
                    locale |-> call.locale, hits |-> call.hits,
                    messages |-> MessagesOf(settled), fetches |-> <<>>]
              ELSE [call EXCEPT !.fetches = settled]]

SettleFetch(c, i, outcome) ==
    LET call    == calls[c]
        fetch   == call.fetches[i]
        result  == FetchResult(fetch.url, outcome)
        settled == [call.fetches EXCEPT ![i] =
                      IF result.threw
                      THEN [@ EXCEPT !.state = "rejected"]
                      ELSE [@ EXCEPT !.state = "fulfilled", !.value = result.value]]
    IN  /\ loadedMessages' =
              StoreMessages(loadedMessages, maximizeLocale(call.locale),
                            fetch.namespace, result)
        /\ calls' = [calls EXCEPT ![c] =
              IF call.status # "pending"
              THEN [call EXCEPT !.fetches = settled]
              ELSE IF result.threw
              THEN [status |-> "rejected", request |-> call.request,
                    locale |-> call.locale, hits |-> call.hits,
                    error |-> FailedToLoad(result.error), fetches |-> settled]
              ELSE IF InFlight(settled) = {}
              THEN [status |-> "resolved", request |-> call.request,
                    locale |-> call.locale, hits |-> call.hits,
                    messages |-> MessagesOf(settled), fetches |-> <<>>]
              ELSE [call EXCEPT !.fetches = settled]]

Settle(c, i) ==
    /\ calls[c].status \in {"pending", "rejected"}
    /\ i \in InFlight(calls[c].fetches)
    /\ \E outcome \in SourceOutcomes(calls[c].fetches[i].url, calls[c].fetches[i].namespace) :
          SettleFetch(c, i, outcome)
    /\ tOut' = None
    /\ UNCHANGED <<engineVars, fetchCount, outsideEngine>>

(***************************************************************************)
(* The translation function t(key, substitutions) of a resolved call.     *)
(***************************************************************************)
\* /^((?<namespace>[a-z]+):)?(?<selector>.*)/i on the tokens of a key
HasNamespacePrefix(key) == Len(key) >= 2 /\ IsLetters(key[1]) /\ key[2] = ":"

parseKey(key, requested) ==
    LET namespace == IF HasNamespacePrefix(key) THEN key[1] ELSE "common"
        selector  == IF HasNamespacePrefix(key) THEN SubSeq(key, 3, Len(key)) ELSE key
    IN  IF selector = <<>>
        THEN Threw([kind |-> "malformedKey", key |-> key])
        ELSE IF ~(namespace = "common" \/ namespace \in Range(requested))
        THEN Threw([kind |-> "undeclaredKeyNamespace", key |-> key, namespace |-> namespace])
        ELSE Returned([namespace |-> namespace, selector |-> selector])

MessageNotFound(namespace, selector) ==
    [kind |-> "messageNotFound", namespace |-> namespace, selector |-> selector]

\* the body of t after #parseKey: the message at selector in the messages
\* of namespace, its placeholders substituted
MessageAt(messages, namespace, selector, substitutions) ==
    LET found == lookupValue(messages[namespace], selector)
    IN  IF ~Truthy(messages[namespace])
        THEN Threw([kind |-> "noMessagesLoaded", namespace |-> namespace])
        ELSE IF found.threw THEN found
        ELSE IF ~Truthy(found.value)
        THEN Threw(MessageNotFound(namespace, selector))
        ELSE IF found.value.type # "string"
        THEN Threw(TypeError("message.replaceAll is not a function"))
        ELSE substitutePlaceholders(found.value.chars, substitutions)

\* the body of t: messages and requested are what loadMessages closed over
Translation(messages, requested, key, substitutions) ==
    LET parsed == parseKey(key, requested)
    IN  IF parsed.threw THEN parsed
        ELSE MessageAt(messages, parsed.value.namespace, parsed.value.selector,
                       substitutions)

\* the keys and substitutions a caller passes to t
KeyInputs ==
    {<<"hello">>, <<"pair">>, <<"lines">>, <<"plain">>, <<"empty">>,
     <<"nested", ".", "leaf">>, <<"nested">>, <<"nested", ".", "nope">>,
     <<"nope">>, <<"nope", ".", "leaf">>,
     <<"common", ":", "plain">>, <<"drama", ":", "title">>,
     <<"my-ns", ":", "title">>, <<"extra", ":", "title">>,
     <<"drama", ":">>, <<>>}

SubstitutionInputs ==
    {<<>>,
     <<"a">> :> <<"1">>,
     <<"a">> :> <<>>,
     <<"b">> :> <<"2">>,
     (<<"a">> :> <<"1">>) @@ (<<"b">> :> <<"2">>)}

\* a t that empties the cache when it throws
TranslateEvicting(c, key, substitutions) ==
    LET result == Translation(calls[c].messages, calls[c].request.namespaces,
                              key, substitutions)
    IN  /\ calls[c].status = "resolved"
        /\ tOut' = [status |-> "called", caller |-> c, key |-> key,
                    substitutions |-> substitutions, result |-> result]
        /\ loadedMessages' =
              IF result.threw
              THEN [l \in DOMAIN loadedMessages |-> [ns \in AllNamespaces |-> Undefined]]
              ELSE loadedMessages
        /\ UNCHANGED <<engineVars, calls, fetchCount, outsideEngine>>

Translate(c, key, substitutions) ==
    /\ calls[c].status = "resolved"
    /\ tOut' = [status |-> "called", caller |-> c, key |-> key,
                substitutions |-> substitutions,
                result |-> Translation(calls[c].messages, calls[c].request.namespaces,
                                       key, substitutions)]
    /\ UNCHANGED <<engineVars, loadedMessages, calls, fetchCount, outsideEngine>>

(***************************************************************************)
(* The specifications.                                                     *)
(*                                                                         *)
(* SpecNew constructs an engine from every configuration of OptionInputs.  *)
(* Spec starts from an engine the constructor has returned and runs        *)
(* loadMessages calls, the fetches they start, and translation calls.      *)
(* SpecT starts from a resolved loadMessages call and calls its            *)
(* translation function with every key and substitution of the inputs.     *)
(***************************************************************************)
OptionInputs ==
    [supportedLocales    : SeqsUpTo(DeclaredLocaleInputs, MaxDeclared),
     namespaces          : NamespaceListInputs,
     messagesUrlTemplate : TemplateInputs]

\* the runtime is read only when the template is left out
RuntimesFor(options) ==
    IF options.messagesUrlTemplate = OmittedUrl THEN RuntimeInputs ELSE {"node"}

NextNew ==
    \E options \in OptionInputs : \E runtime \in RuntimesFor(options) :
        New(options, runtime)

SpecNew == Init /\ [][NextNew]_vars

\* the engines of Spec: one locale with a declared namespace and the locator
\* of the test fixtures, and the three locales of the test fixture with
\* no namespace but `common` and the network locator of the README
EngineInputs ==
    {[supportedLocales    |-> << <<"en">> >>,
      namespaces          |-> <<"drama">>,
      messagesUrlTemplate |-> FixtureTemplate],
     [supportedLocales    |-> << <<"en">>, <<"fr">>, <<"fr", "Arab">> >>,
      namespaces          |-> <<>>,
      messagesUrlTemplate |-> Url("https:", <<"/messages/", ":locale", "/", ":namespace">>, <<>>)]}

\* the state new I18n(options) leaves behind
Constructed(options, runtime) ==
    LET made == Construct(options, runtime)
    IN  /\ ~made.threw
        /\ constructed = "yes"
        /\ ctor = [status |-> "returned", options |-> options, runtime |-> runtime]
        /\ supportedLocales = made.value.supportedLocales
        /\ namespaces = made.value.namespaces
        /\ messagesUrlTemplate = made.value.messagesUrlTemplate

\* nothing loaded, nothing fetched
NothingLoaded ==
    /\ loadedMessages = [locale \in SupportedKeys |-> [ns \in AllNamespaces |-> Undefined]]
    /\ fetchCount = [pair \in SupportedKeys \X AllNamespaces |-> 0]

InitLoaded ==
    /\ \E options \in EngineInputs : Constructed(options, "node")
    /\ NothingLoaded
    /\ calls = <<None>>
    /\ tOut = None
    /\ NoLocaleCall
    /\ NoCommand

\* the locale strings loadMessages is called with: the four shapes of a
\* locale that is declared, two that match no declared locale, one that is
\* no locale
LocaleRequests ==
    {<<"en">>, <<"en", "US">>, <<"en", "Latn">>, <<"en", "Latn", "US">>,
     <<"fr", "Arab">>, <<"en", "Arab">>, <<"fr">>, <<"en_US">>}

\* those of them the callers of Spec use call after call
RepeatedLocaleRequests ==
    {<<"en">>, <<"en", "US">>, <<"fr", "Arab">>, <<"en", "Arab">>, <<"en_US">>}

NamespaceRequests == SeqsUpTo(NamespaceInputs, MaxRequested)

\* the environment is read only when the locale is left out
EnvsFor(locale) ==
    IF locale = Omitted THEN EnvInputs ELSE {ServerEnv}

\* the keys the callers of Spec pass to t, with no substitutions: keys of
\* messages, a key with no selector, a key of no message, and the key of a
\* message with a placeholder
RepeatedKeys ==
    {<<"plain">>, <<"common", ":", "plain">>, <<"drama", ":", "title">>,
     <<>>, <<"nope">>, <<"hello">>}

Next ==
    \/ \E c \in Callers, locale \in RepeatedLocaleRequests,
          requested \in NamespaceRequests :
            LoadMessages(c, locale, requested, ServerEnv)
    \/ \E c \in Callers, i \in 1..(MaxRequested + 1) : Settle(c, i)
    \/ \E c \in Callers, key \in RepeatedKeys : Translate(c, key, <<>>)

Spec == InitLoaded /\ [][Next]_vars

\* one loadMessages call per caller, with every request of the inputs
FirstLoadMessages(c, locale, requested, env) ==
    /\ calls[c].status = "none"
    /\ LoadMessages(c, locale, requested, env)

NextCall ==
    \/ \E c \in Callers, locale \in LocaleRequests \cup {Omitted},
          requested \in NamespaceRequests :
            \E env \in EnvsFor(locale) : FirstLoadMessages(c, locale, requested, env)
    \/ \E c \in Callers, i \in 1..(MaxRequested + 1) : Settle(c, i)

\* a template that names the locale and the namespace in its query
QueryTemplate ==
    Url("https:", <<"/messages">>, <<"?locale=", ":locale", "&namespace=", ":namespace">>)

\* the engines of SpecCall: those of Spec, one that is given no template
\* and runs in node, and one whose template has its tokens in the query
CallEngineInputs ==
    EngineInputs \cup
        {[supportedLocales    |-> << <<"en">> >>,
          namespaces          |-> <<>>,
          messagesUrlTemplate |-> OmittedUrl],
         [supportedLocales    |-> << <<"fr">> >>,
          namespaces          |-> <<>>,
          messagesUrlTemplate |-> QueryTemplate]}

InitCall ==
    /\ \E options \in CallEngineInputs : Constructed(options, "node")
    /\ NothingLoaded
    /\ calls = <<None>>
    /\ tOut = None
    /\ NoLocaleCall
    /\ NoCommand

SpecCall == InitCall /\ [][NextCall]_vars

\* the engine of SpecT: the namespaces of the inputs, all declared
TranslateEngine ==
    [supportedLocales    |-> << <<"en">> >>,
     namespaces          |-> <<"drama", "my-ns">>,
     messagesUrlTemplate |-> FixtureTemplate]

\* the messages of (locale, namespace) as the source serves them
ServedMessages(locale, namespace) ==
    FileBody(SourceUrl(messagesUrlTemplate, DeclaredAsOf(locale), namespace), namespace)

\* the state after loadMessages({locale: "en", namespaces: [...NamespaceInputs]})
\* has resolved and a second call, with the namespaces `requested`, has
\* resolved from the cache
InitTranslate ==
    /\ Constructed(TranslateEngine, "node")
    /\ \E requested \in NamespaceRequests :
          LET locale == maximizeLocale(<<"en">>)
              wanted == Range(requested) \cup {"common"}
          IN  /\ loadedMessages =
                    [l \in SupportedKeys |->
                        [ns \in AllNamespaces |->
                            IF ns \in namespaces \cup {"common"}
                            THEN ServedMessages(l, ns) ELSE Undefined]]
              /\ fetchCount =
                    [pair \in SupportedKeys \X AllNamespaces |->
                        IF pair[2] \in namespaces \cup {"common"} THEN 1 ELSE 0]
              /\ calls = <<[status |-> "resolved",
                            request |-> [locale |-> <<"en">>, namespaces |-> requested,
                                         env |-> ServerEnv],
                            locale |-> locale,
                            messages |-> [ns \in wanted |-> ServedMessages(locale, ns)],
                            hits |-> wanted, fetches |-> <<>>]>>
    /\ tOut = None
    /\ NoLocaleCall
    /\ NoCommand

NextT ==
    \E c \in Callers, key \in KeyInputs, substitutions \in SubstitutionInputs :
        Translate(c, key, substitutions)

SpecT == InitTranslate /\ [][NextT]_vars

\* the engine of SpecConc: two locales and a declared namespace
ConcurrentEngine ==
    [supportedLocales    |-> << <<"en">>, <<"fr">> >>,
     namespaces          |-> <<"drama">>,
     messagesUrlTemplate |-> FixtureTemplate]

\* an engine that declares one locale in two spellings
DuplicateEngine ==
    [supportedLocales    |-> << <<"en">>, <<"en", "US">> >>,
     namespaces          |-> <<"drama">>,
     messagesUrlTemplate |-> FixtureTemplate]

\* two callers, neither of which has called loadMessages yet
InitConc ==
    /\ \E options \in {ConcurrentEngine, DuplicateEngine} : Constructed(options, "node")
    /\ NothingLoaded
    /\ calls = <<None, None>>
    /\ tOut = None
    /\ NoLocaleCall
    /\ NoCommand

\* two spellings of one declared locale, and another declared locale
ConcurrentLocaleRequests == {<<"en">>, <<"en", "US">>, <<"fr">>}

ConcurrentNamespaceRequests == {<<>>, <<"drama">>}

\* each caller calls loadMessages once; the fetches of the two calls settle
\* in any order
NextConc ==
    \/ \E c \in Callers, locale \in ConcurrentLocaleRequests,
          requested \in ConcurrentNamespaceRequests :
            FirstLoadMessages(c, locale, requested, ServerEnv)
    \/ \E c \in Callers, i \in 1..(MaxRequested + 1) : Settle(c, i)

SpecConc == InitConc /\ [][NextConc]_vars

(***************************************************************************)
(* The functions of utils/locales.ts, called by themselves with any        *)
(* string.                                                                 *)
(***************************************************************************)
\* the subtags the strings are made of: languages, scripts, regions, a
\* variant, and text that is no subtag
SubtagInputs ==
    {"en", "fr", "zh", "UTF", "Latn", "Hant", "FR", "TW", "419", "valencia", "en_US", ""}

LocaleStringInputs == SeqsUpTo(SubtagInputs, MaxSubtags) \ {<<>>}

\* new Intl.Locale(locale): a RangeError for a string that is no locale
NewLocale(locale) ==
    IF isValidRfc5646Locale(locale)
    THEN Returned(LocaleFields(locale))
    ELSE Threw([kind |-> "RangeError", locale |-> locale])

\* maximizeLocale(locale), for any string
MaximizeLocaleCall(locale) ==
    LET made == NewLocale(locale)
    IN  IF made.threw THEN made
        ELSE Returned(LocaleToString(AddLikelySubtags(made.value)))

\* isMaximizedLocale(locale), for any string
IsMaximizedLocaleCall(locale) ==
    LET maximized == MaximizeLocaleCall(locale)
    IN  IF maximized.threw THEN maximized
        ELSE Returned(locale = maximized.value)

\* one call of a function of utils/locales.ts; the functions keep no state,
\* and a behaviour is one call
CallMaximizeLocale(locale) ==
    /\ localeOut = None
    /\ localeOut' = [status |-> "called", function |-> "maximizeLocale",
                     locale |-> locale, result |-> MaximizeLocaleCall(locale)]
    /\ UNCHANGED <<i18nVars, commandVars>>

CallIsMaximizedLocale(locale) ==
    /\ localeOut = None
    /\ localeOut' = [status |-> "called", function |-> "isMaximizedLocale",
                     locale |-> locale, result |-> IsMaximizedLocaleCall(locale)]
    /\ UNCHANGED <<i18nVars, commandVars>>

NextLocale ==
    \/ \E locale \in LocaleStringInputs : CallMaximizeLocale(locale)
    \/ \E locale \in LocaleStringInputs : CallIsMaximizedLocale(locale)

SpecLocale == Init /\ [][NextLocale]_vars

(***************************************************************************)
(* @websnacksjs/conventional, the commit-msg command.                      *)
(*                                                                         *)
(* A text is the sequence of its characters; the line feed and the tab     *)
(* are the characters NewLine and Tab. An error message is the sequence    *)
(* of the pieces of text it is put together from.                          *)
(***************************************************************************)
Space == " "
Tab == "TAB"

LowerCaseLetters ==
    <<"a", "b", "c", "d", "e", "f", "g", "h", "i", "j", "k", "l", "m",
      "n", "o", "p", "q", "r", "s", "t", "u", "v", "w", "x", "y", "z">>

UpperCaseLetters ==
    <<"A", "B", "C", "D", "E", "F", "G", "H", "I", "J", "K", "L", "M",
      "N", "O", "P", "Q", "R", "S", "T", "U", "V", "W", "X", "Y", "Z">>

Digits == {"0", "1", "2", "3", "4", "5", "6", "7", "8", "9"}

\* \w
WordCharacters == Range(LowerCaseLetters) \cup Range(UpperCaseLetters) \cup Digits \cup {"_"}

\* \s
Whitespace == {Space, Tab, NewLine}

Punctuation == {".", "!", "?", ",", ":", ";", "(", ")", "-", "#", "'", "/"}

Characters == WordCharacters \cup Whitespace \cup Punctuation

\* String.prototype.toLowerCase and toUpperCase, of one character
ToLowerCase(ch) ==
    IF ch \in Range(UpperCaseLetters)
    THEN LowerCaseLetters[CHOOSE i \in DOMAIN UpperCaseLetters : UpperCaseLetters[i] = ch]
    ELSE ch

ToUpperCase(ch) ==
    IF ch \in Range(LowerCaseLetters)
    THEN UpperCaseLetters[CHOOSE i \in DOMAIN LowerCaseLetters : LowerCaseLetters[i] = ch]
    ELSE ch

\* how many characters at the start of str are in the set S
RunLength(str, S) ==
    LET others == {i \in DOMAIN str : str[i] \notin S}
    IN  IF others = {} THEN Len(str)
        ELSE (CHOOSE i \in others : \A j \in others : i <= j) - 1

\* str without the characters of S it ends with
DropTrailing(str, S) ==
    LET others == {i \in DOMAIN str : str[i] \notin S}
    IN  IF others = {} THEN <<>>
        ELSE SubSeq(str, 1, CHOOSE i \in others : \A j \in others : j <= i)

From(str, i) == SubSeq(str, i, Len(str))

\* String.prototype.trim
Trim(str) == DropTrailing(From(str, RunLength(str, Whitespace) + 1), Whitespace)

StartsWithAt(str, i, part) ==
    /\ i + Len(part) - 1 <= Len(str)
    /\ SubSeq(str, i, i + Len(part) - 1) = part

\* String.prototype.split(separator), the separator not empty
RECURSIVE Split(_, _)
Split(str, separator) ==
    LET at == {i \in DOMAIN str : StartsWithAt(str, i, separator)}
    IN  IF at = {} THEN <<str>>
        ELSE LET first == CHOOSE i \in at : \A j \in at : i <= j
             IN  <<SubSeq(str, 1, first - 1)>> \o
                 Split(From(str, first + Len(separator)), separator)

\* Array.prototype.join(separator)
RECURSIVE Join(_, _)
Join(parts, separator) ==
    IF parts = <<>> THEN <<>>
    ELSE IF Len(parts) = 1 THEN parts[1]
    ELSE parts[1] \o separator \o Join(Tail(parts), separator)

\* Array.prototype.filter with the predicate given as the kept places
KeepAt(items, kept) ==
    LET places == DOMAIN items \cap kept
    IN  [j \in 1..Cardinality(places) |->
            items[CHOOSE i \in places : Cardinality({k \in places : k <= i}) = j]]

\* str.replaceAll(/ +/g, " "): of each run of spaces one space is left
CollapseSpaces(str) ==
    KeepAt(str, {i \in DOMAIN str : ~(str[i] = Space /\ i < Len(str) /\ str[i + 1] = Space)})

collapseWhitespace(str) ==
    LET trimmed == Trim(str)
    IN  CollapseSpaces([i \in DOMAIN trimmed |->
                           IF trimmed[i] = Tab THEN Space ELSE trimmed[i]])

lowerCaseFirstCharacter(str) ==
    IF str = <<>> THEN <<>> ELSE <<ToLowerCase(str[1])>> \o Tail(str)

upperCaseFirstCharacter(str) ==
    IF str = <<>> THEN <<>> ELSE <<ToUpperCase(str[1])>> \o Tail(str)

\* new Error(message, {cause}); an Error made without a cause has the
\* cause undefined
ErrorOf(message, errorCause) ==
    [type |-> "Error", message |-> message, cause |-> errorCause]

IsError(value) == value.type = "Error"

\* JSON.stringify(value) inside a template literal; the arrays and objects
\* that are thrown or given as a cause are empty ones
Stringify(value) ==
    CASE value.type = "string" -> <<"\"">> \o value.chars \o <<"\"">>
      [] value.type = "null" -> <<"null">>
      [] value.type \in {"undefined", "function"} -> <<"undefined">>
      [] value.type = "number" -> <<ToString(value.n)>>
      [] value.type = "array" -> <<"[]">>
      [] OTHER -> <<"{}">>

normalizeError(value) ==
    IF IsError(value) THEN value
    ELSE ErrorOf(<<"non-Error type thrown: ">> \o Stringify(value), Undefined)

TrailingComma ==
    ErrorOf(<<"ends w/ trailing comma \",\" (did you include the entire string?)">>,
            Undefined)

assertNoTrailingComma(str) ==
    IF str # <<>> /\ str[Len(str)] = "," THEN Threw(TrailingComma)
    ELSE Returned(Undefined)

\* str.match(/[.!?]|\.\.\./)
assertNoPunctuation(str) ==
    IF Range(str) \cap {".", "!", "?"} # {}
    THEN Threw(ErrorOf(<<"contains punctuation">>, Undefined))
    ELSE Returned(Undefined)

\* str.replace(/\W+$/, "") after assertNoTrailingComma
removeTrailingPunctuation(str) ==
    IF assertNoTrailingComma(str).threw THEN assertNoTrailingComma(str)
    ELSE Returned(DropTrailing(str, Characters \ WordCharacters))

\* a "." is added unless str.match(/[.!?]|\.\.\.$/), which any ".", "!"
\* or "?" in str satisfies
properlyPuncuate(str) ==
    IF assertNoTrailingComma(str).threw THEN assertNoTrailingComma(str)
    ELSE IF Range(str) \cap {".", "!", "?"} = {} THEN Returned(str \o <<".">>)
    ELSE Returned(str)

unwrapText(str) ==
    LET paragraphs == Split(str, <<NewLine, NewLine>>)
    IN  Join([i \in DOMAIN paragraphs |->
                 Join(Split(paragraphs[i], <<NewLine>>), <<Space>>)],
             <<NewLine>>)

removeComments(str) ==
    LET lines == Split(str, <<NewLine>>)
    IN  Join(KeepAt(lines, {i \in DOMAIN lines : ~StartsWithAt(lines[i], 1, <<"#">>)}),
             <<NewLine>>)

\* uniqueBy(items, keyFn), the keys given as the sequence keyFn maps items to
uniqueBy(items, keys) ==
    KeepAt(items, {i \in DOMAIN items : \A j \in 1..(i - 1) : keys[j] # keys[i]})

\* Array.prototype.map with a function that may throw: the first error
\* thrown, or the values returned
AllReturned(results) ==
    IF \E i \in DOMAIN results : results[i].threw
    THEN results[CHOOSE i \in DOMAIN results :
                    results[i].threw /\ \A j \in 1..(i - 1) : ~results[j].threw]
    ELSE Returned([i \in DOMAIN results |-> results[i].value])

\* /^(?<type>\w+)(?:\((?<scope>[^()]+)\))?(?<breaking>!)?: (?<description>.+)/
\* on a line; a group that did not take part is the empty text
MatchSummary(line) ==
    LET Groups(afterType, hasScope, scopeLength, afterScope) ==
            LET hasBreaking   == afterScope # <<>> /\ Head(afterScope) = "!"
                afterBreaking == IF hasBreaking THEN Tail(afterScope) ELSE afterScope
            IN  [matched     |-> /\ line # <<>> /\ Head(line) \in WordCharacters
                                 /\ StartsWithAt(afterBreaking, 1, <<":", Space>>)
                                 /\ Len(afterBreaking) >= 3,
                 type        |-> SubSeq(line, 1, Len(line) - Len(afterType)),
                 scope       |-> IF hasScope THEN SubSeq(afterType, 2, scopeLength + 1)
                                 ELSE <<>>,
                 breaking    |-> IF hasBreaking THEN <<"!">> ELSE <<>>,
                 description |-> From(afterBreaking, 3)]
        Scoped(afterType, hasScope, scopeLength) ==
            Groups(afterType, hasScope, scopeLength,
                   IF hasScope THEN From(afterType, scopeLength + 3) ELSE afterType)
        AfterType(afterType, scopeLength) ==
            Scoped(afterType,
                   /\ scopeLength >= 1
                   /\ Len(afterType) >= scopeLength + 2
                   /\ afterType[scopeLength + 2] = ")",
                   scopeLength)
        Typed(afterType) ==
            AfterType(afterType,
                      IF afterType # <<>> /\ Head(afterType) = "("
                      THEN RunLength(Tail(afterType), Characters \ {"(", ")"})
                      ELSE 0)
    IN  Typed(From(line, RunLength(line, WordCharacters) + 1))

BREAKING_CHANGE_KEY ==
    <<"B", "R", "E", "A", "K", "I", "N", "G", Space, "C", "H", "A", "N", "G", "E">>

\* /^(?<key>[\w-]+|BREAKING CHANGE): (?<value>.+)/ on a line
MatchFooter(line) ==
    LET Groups(keyLength) ==
            [matched |-> /\ keyLength >= 1
                         /\ StartsWithAt(line, keyLength + 1, <<":", Space>>)
                         /\ Len(line) >= keyLength + 3,
             key     |-> SubSeq(line, 1, keyLength),
             value   |-> From(line, keyLength + 3)]
        Keyed(wordLength) ==
            Groups(IF StartsWithAt(line, wordLength + 1, <<":", Space>>) THEN wordLength
                   ELSE IF StartsWithAt(line, 1, BREAKING_CHANGE_KEY)
                   THEN Len(BREAKING_CHANGE_KEY)
                   ELSE 0)
    IN  Keyed(RunLength(line, WordCharacters \cup {"-"}))

normalizeDescription(description) ==
    removeTrailingPunctuation(lowerCaseFirstCharacter(collapseWhitespace(description)))

normalizeType(type) == [i \in DOMAIN type |-> ToLowerCase(type[i])]

normalizeScope(scope) ==
    LET LowerCased(collapsed) == [i \in DOMAIN collapsed |-> ToLowerCase(collapsed[i])]
    IN  LowerCased(collapseWhitespace(scope))

normalizeBody(body) ==
    LET Joined(normalized) ==
            IF normalized.threw THEN normalized
            ELSE Returned(Join(normalized.value, <<NewLine, NewLine>>))
        Normalized(paragraphs) ==
            Joined(AllReturned(
                [i \in DOMAIN paragraphs |->
                    properlyPuncuate(
                        upperCaseFirstCharacter(collapseWhitespace(paragraphs[i])))]))
        Trimmed(trimmed) ==
            IF trimmed = <<>> THEN Returned(<<>>)
            ELSE Normalized(Split(unwrapText(trimmed), <<NewLine>>))
    IN  Trimmed(Trim(body))

normalizeBreakingChange(breakingChanges) ==
    LET Asserted(trimmed) ==
            IF trimmed.threw THEN trimmed
            ELSE IF assertNoPunctuation(trimmed.value).threw
            THEN assertNoPunctuation(trimmed.value)
            ELSE trimmed
    IN  Asserted(removeTrailingPunctuation(
                     lowerCaseFirstCharacter(collapseWhitespace(breakingChanges))))

normalizeFooter(footer) ==
    LET words == Split(footer.key, <<"-">>)
    IN  [key   |-> Join([i \in DOMAIN words |->
                            IF i = 1 THEN upperCaseFirstCharacter(words[i])
                            ELSE lowerCaseFirstCharacter(words[i])], <<"-">>),
         value |-> collapseWhitespace(Trim(footer.value))]

normalizeFooters(footers) ==
    LET Each(unique) == [i \in DOMAIN unique |-> normalizeFooter(unique[i])]
    IN  Each(uniqueBy(footers,
                      [i \in DOMAIN footers |->
                          footers[i].key \o <<":", Space>> \o footers[i].value]))

\* the footers of the lines from the first footer line on: a line that is
\* no footer is appended to the value of the footer before it
RECURSIVE FootersOf(_)
FootersOf(lines) ==
    LET With(before, line, match) ==
            IF match.matched
            THEN Append(before, [key |-> match.key, value |-> match.value])
            ELSE [before EXCEPT ![Len(before)].value = @ \o <<NewLine>> \o line]
    IN  IF lines = <<>> THEN <<>>
        ELSE With(FootersOf(SubSeq(lines, 1, Len(lines) - 1)),
                  lines[Len(lines)], MatchFooter(lines[Len(lines)]))

IsBreakingChangeKey(key) ==
    key = BREAKING_CHANGE_KEY \/ key = [BREAKING_CHANGE_KEY EXCEPT ![9] = "-"]

parseCommitMessageBody(lines) ==
    LET Parsed(body, breakingChanges, footers) ==
            IF body.threw
            THEN Threw(ErrorOf(<<"commit message body malformed">>,
                               normalizeError(body.error)))
            ELSE IF breakingChanges.threw THEN breakingChanges
            ELSE Returned([body            |-> body.value,
                           breakingChanges |-> breakingChanges.value,
                           footers         |-> footers])
        BreakingChanges(removed) ==
            AllReturned([i \in DOMAIN removed |-> normalizeBreakingChange(removed[i].value)])
        Footers(body, footers, breaking) ==
            Parsed(body,
                   BreakingChanges(KeepAt(footers, breaking)),
                   normalizeFooters(KeepAt(footers, DOMAIN footers \ breaking)))
        Body(body, footers) ==
            Footers(body, footers,
                    {i \in DOMAIN footers : IsBreakingChangeKey(footers[i].key)})
        BodyLines(bodyEnd) ==
            Body(normalizeBody(Join(SubSeq(lines, 1, bodyEnd), <<NewLine>>)),
                 FootersOf(From(lines, bodyEnd + 1)))
        FooterAt(footerAt) ==
            BodyLines(IF footerAt = {} THEN Len(lines)
                      ELSE (CHOOSE i \in footerAt : \A j \in footerAt : i <= j) - 1)
    IN  FooterAt({i \in DOMAIN lines : MatchFooter(lines[i]).matched})

NotConventional ==
    ErrorOf(<<"commit message is not in a conventional commit v1.0.0 compliant format (see https://www.conventionalcommits.org/en/v1.0.0/)">>,
            Undefined)

parseCommitMessage(message) ==
    LET Parsed(summaryMatch, description, rest) ==
            IF description.threw
            THEN Threw(ErrorOf(<<"commit message description malformed">>,
                               normalizeError(description.error)))
            ELSE IF rest.threw THEN rest
            ELSE Returned(
                [type            |-> normalizeType(summaryMatch.type),
                 scope           |-> normalizeScope(summaryMatch.scope),
                 isBreaking      |-> summaryMatch.breaking # <<>>
                                     \/ rest.value.breakingChanges # <<>>,
                 description     |-> description.value,
                 body            |-> rest.value.body,
                 breakingChanges |-> rest.value.breakingChanges,
                 footers         |-> rest.value.footers])
        Matched(summaryMatch, lines) ==
            IF ~summaryMatch.matched THEN Threw(NotConventional)
            ELSE Parsed(summaryMatch,
                        normalizeDescription(summaryMatch.description),
                        parseCommitMessageBody(lines))
        Lines(lines) == Matched(MatchSummary(lines[1]), Tail(lines))
    IN  Lines(Split(removeComments(message), <<NewLine>>))

MAX_LINE_LENGTH == 72

\* the match of /.{1,width}(\s+|$)|\S+?(\s+|$)/ at the start of str (the
\* class \s of the source also has U+200B, which no text of the model
\* has): how many characters it takes, 0 when there is none
WrapMatch(str, width) ==
    LET onLine   == RunLength(str, Characters \ {NewLine})
        most     == IF onLine < width THEN onLine ELSE width
        ends     == {k \in 1..most : k = Len(str) \/ str[k + 1] \in Whitespace}
        longest  == CHOOSE k \in ends : \A j \in ends : j <= k
        word     == RunLength(str, Characters \ Whitespace)
    IN  IF ends # {} THEN longest + RunLength(From(str, longest + 1), Whitespace)
        ELSE IF word >= 1 THEN word + RunLength(From(str, word + 1), Whitespace)
        ELSE 0

\* str.match(re) with the g flag: the matches from left to right, a
\* character at which nothing matches being passed over
RECURSIVE WrapMatches(_, _)
WrapMatches(str, width) ==
    IF str = <<>> THEN <<>>
    ELSE LET taken == WrapMatch(str, width)
         IN  IF taken = 0 THEN WrapMatches(Tail(str), width)
             ELSE <<SubSeq(str, 1, taken)>> \o WrapMatches(From(str, taken + 1), width)

trimEnd(str) == DropTrailing(str, {Space, Tab})

trimTabAndSpaces(str) ==
    LET lines == Split(str, <<NewLine>>)
    IN  Join([i \in DOMAIN lines |-> trimEnd(lines[i])], <<NewLine>>)

wrap(str, width) ==
    IF str = <<>> THEN str
    ELSE LET lines == WrapMatches(str, width)
         IN  trimTabAndSpaces(
                 Join([i \in DOMAIN lines |->
                          IF lines[i][Len(lines[i])] = NewLine
                          THEN SubSeq(lines[i], 1, Len(lines[i]) - 1)
                          ELSE lines[i]],
                      <<NewLine>>))

\* the first line serializeCommitMessage writes
SummaryLine(message) ==
    message.type
      \o (IF message.scope # <<>> THEN <<"(">> \o message.scope \o <<")">> ELSE <<>>)
      \o (IF message.isBreaking THEN <<"!">> ELSE <<>>)
      \o <<":", Space>> \o message.description

SummaryTooLong ==
    ErrorOf(<<"commit message summary line exceeds max length of ", "72", " characters">>,
            Undefined)

\* a serializeCommitMessage that puts no limit on the summary line
serializeCommitMessageAnyLength(message) ==
    LET breakingChangeLines ==
            [i \in DOMAIN message.breakingChanges |->
                BREAKING_CHANGE_KEY \o <<":", Space>> \o message.breakingChanges[i]]
        footerLines ==
            [i \in DOMAIN message.footers |->
                message.footers[i].key \o <<":", Space>> \o message.footers[i].value]
    IN  Returned(
             SummaryLine(message)
               \o (IF message.body # <<>>
                   THEN <<NewLine, NewLine>> \o wrap(message.body, MAX_LINE_LENGTH)
                   ELSE <<>>)
               \o (IF breakingChangeLines # <<>>
                   THEN <<NewLine, NewLine>> \o Join(breakingChangeLines, <<NewLine>>)
                   ELSE <<>>)
               \o (IF footerLines # <<>>
                   THEN <<NewLine, NewLine>> \o Join(footerLines, <<NewLine>>)
                   ELSE <<>>))

serializeCommitMessage(message) ==
    LET breakingChangeLines ==
            [i \in DOMAIN message.breakingChanges |->
                BREAKING_CHANGE_KEY \o <<":", Space>> \o message.breakingChanges[i]]
        footerLines ==
            [i \in DOMAIN message.footers |->
                message.footers[i].key \o <<":", Space>> \o message.footers[i].value]
    IN  IF Len(SummaryLine(message)) > MAX_LINE_LENGTH THEN Threw(SummaryTooLong)
        ELSE Returned(
             SummaryLine(message)
               \o (IF message.body # <<>>
                   THEN <<NewLine, NewLine>> \o wrap(message.body, MAX_LINE_LENGTH)
                   ELSE <<>>)
               \o (IF breakingChangeLines # <<>>
                   THEN <<NewLine, NewLine>> \o Join(breakingChangeLines, <<NewLine>>)
                   ELSE <<>>)
               \o (IF footerLines # <<>>
                   THEN <<NewLine, NewLine>> \o Join(footerLines, <<NewLine>>)
                   ELSE <<>>))

\* a function value, given as what it does when it is called
Function(behaviour) == [type |-> "function", behaviour |-> behaviour]

ValidateCommitMessageKey == <<"validateCommitMessage">>

DEFAULT_CONFIG == JsonObject(<<>>)

validateConfig(value) ==
    IF value.type \notin {"object", "array", "null"}
    THEN Threw(ErrorOf(<<"not an object">>, Undefined))
    ELSE IF value.type = "null" THEN Threw(ErrorOf(<<"is null">>, Undefined))
    ELSE IF /\ value.type = "object"
            /\ ValidateCommitMessageKey \in DOMAIN value.entries
            /\ value.entries[ValidateCommitMessageKey].type # "function"
    THEN Threw(ErrorOf(<<"validateCommitMessage is not a function">>, Undefined))
    ELSE Returned(value)

\* process.cwd(), split at "/", of the working directory with the names cwd
ProcessCwd(directory) == IF directory = <<>> THEN <<"", "">> ELSE <<"">> \o directory

\* new URL(`file://${process.cwd()}/`).pathname, split at "/"
CwdPathname(directory) == Append(ProcessCwd(directory), "")

\* the directory a pathname leads to, as the names on the way
RECURSIVE DirectoryAt(_)
DirectoryAt(pathname) ==
    IF pathname = <<>> THEN <<>>
    ELSE (IF Head(pathname) = "" THEN <<>> ELSE <<Head(pathname)>>)
         \o DirectoryAt(Tail(pathname))

\* `${configDir.pathname.split("/").slice(0, -2).join("/")}/`, split at "/"
ParentPathname(pathname) ==
    LET kept == SubSeq(pathname, 1, Len(pathname) - 2)
    IN  IF kept = <<>> THEN <<"", "">> ELSE Append(kept, "")

RootPathname == <<"", "">>

\* path.relative(process.cwd(), fileURLToPath(configFile))
RelativeConfigFile(directory, pathname) ==
    [i \in 1..(Len(directory) - Len(DirectoryAt(pathname))) |-> "../"]
      \o <<"conventional.config.js">>

\* the error main() is rejected with is reported by formatError, which
\* begins with errorCauseChain: causeChain = [], cause = error.cause
Fail(value) ==
    /\ thrown' = normalizeError(value)
    /\ nextCause' = normalizeError(value).cause
    /\ causeChain' = <<>>
    /\ pc' = "errorCauseChain"

\* findConfig, one turn of its loop: await fs.stat(configFile), and what
\* follows up to the next await
FindConfigStat ==
    /\ pc = "stat"
    /\ LET directory == DirectoryAt(configDir)
       IN  IF directory \notin DOMAIN configFiles
           THEN /\ configDir' = ParentPathname(configDir)
                /\ IF ParentPathname(configDir) # RootPathname
                   THEN pc' = "stat" /\ UNCHANGED config
                   ELSE pc' = "readFile" /\ config' = DEFAULT_CONFIG
                /\ UNCHANGED <<thrown, nextCause, causeChain>>
           ELSE IF configFiles[directory].kind = "unreadable"
           THEN /\ Fail(ErrorOf(<<configFiles[directory].code,
                                  ": permission denied, stat">>, Undefined))
                /\ UNCHANGED <<configDir, config>>
           ELSE /\ pc' = "import"
                /\ UNCHANGED <<configDir, config, thrown, nextCause, causeChain>>
    /\ UNCHANGED <<cwd, configFiles, messageFile, commitMessage, exitCode, stderr>>
    /\ UNCHANGED <<i18nVars, localeOut>>

\* what import(configFile) and validateConfig give for a config file
LoadConfig(file, directory, pathname) ==
    LET failedToLoad(value) ==
            Threw(ErrorOf(<<"failed to load config from ./">>
                            \o RelativeConfigFile(directory, pathname),
                          normalizeError(value)))
    IN  CASE file.kind = "throws" -> failedToLoad(file.error)
          [] file.kind = "noDefault" ->
                failedToLoad(ErrorOf(<<"no default export in ">>
                                        \o Join([i \in DOMAIN pathname |-> <<pathname[i]>>],
                                                <<"/">>)
                                        \o <<"conventional.config.js">>, Undefined))
          [] OTHER -> validateConfig(file.default)

\* findConfig after fs.stat has found the file: await import(configFile),
\* validateConfig, return config
FindConfigImport ==
    /\ pc = "import"
    /\ LET loaded == LoadConfig(configFiles[DirectoryAt(configDir)], cwd, configDir)
       IN  IF loaded.threw
           THEN Fail(loaded.error) /\ UNCHANGED config
           ELSE /\ config' = loaded.value
                /\ pc' = "readFile"
                /\ UNCHANGED <<thrown, nextCause, causeChain>>
    /\ UNCHANGED <<cwd, configFiles, messageFile, configDir, commitMessage, exitCode, stderr>>
    /\ UNCHANGED <<i18nVars, localeOut>>

\* a main that writes the parsed message back before it is validated
ReadFileAndWriteBack ==
    /\ pc = "readFile"
    /\ LET parsed == parseCommitMessage(messageFile)
       IN  IF parsed.threw
           THEN Fail(parsed.error) /\ UNCHANGED <<commitMessage, messageFile>>
           ELSE /\ commitMessage' = parsed.value
                /\ messageFile' = serializeCommitMessageAnyLength(parsed.value).value
                /\ pc' = "validateCommitMessage"
                /\ UNCHANGED <<thrown, nextCause, causeChain>>
    /\ UNCHANGED <<cwd, configFiles, configDir, config, exitCode, stderr>>
    /\ UNCHANGED <<i18nVars, localeOut>>

\* main after await fs.readFile(messageFile): parseCommitMessage, and the
\* call of config.validateCommitMessage
ReadFile ==
    /\ pc = "readFile"
    /\ LET parsed == parseCommitMessage(messageFile)
       IN  IF parsed.threw
           THEN Fail(parsed.error) /\ UNCHANGED commitMessage
           ELSE /\ commitMessage' = parsed.value
                /\ pc' = "validateCommitMessage"
                /\ UNCHANGED <<thrown, nextCause, causeChain>>
    /\ UNCHANGED <<cwd, configFiles, messageFile, configDir, config, exitCode, stderr>>
    /\ UNCHANGED <<i18nVars, localeOut>>

\* config.validateCommitMessage?.(commitMessage): a function of the
\* inputs accepts the messages of some scopes and throws for the others
CallValidateCommitMessage(configuration, message) ==
    IF \/ configuration.type # "object"
       \/ ValidateCommitMessageKey \notin DOMAIN configuration.entries
    THEN Returned(Undefined)
    ELSE LET behaviour == configuration.entries[ValidateCommitMessageKey].behaviour
         IN  IF message.scope \in behaviour.accepts THEN Returned(Undefined)
             ELSE Threw(behaviour.throws)

\* main after the await of validateCommitMessage: the rejection is wrapped,
\* or the message is serialized and fs.writeFile is called
ValidateCommitMessage ==
    /\ pc = "validateCommitMessage"
    /\ LET validated  == CallValidateCommitMessage(config, commitMessage)
           serialized == serializeCommitMessage(commitMessage)
       IN  IF validated.threw
           THEN Fail(ErrorOf(<<"user-defined validateCommitMessage(...) rejected commit message">>,
                             normalizeError(validated.error)))
           ELSE IF serialized.threw THEN Fail(serialized.error)
           ELSE /\ pc' = "writeFile"
                /\ UNCHANGED <<thrown, nextCause, causeChain>>
    /\ UNCHANGED <<cwd, configFiles, messageFile, configDir, config, commitMessage,
                   exitCode, stderr>>
    /\ UNCHANGED <<i18nVars, localeOut>>

\* fs.writeFile(messageFile, serializeCommitMessage(commitMessage)) is done;
\* main resolves and the process ends
WriteFile ==
    /\ pc = "writeFile"
    /\ messageFile' = serializeCommitMessage(commitMessage).value
    /\ pc' = "exited"
    /\ exitCode' = 0
    /\ UNCHANGED <<cwd, configFiles, configDir, config, commitMessage,
                   thrown, nextCause, causeChain, stderr>>
    /\ UNCHANGED <<i18nVars, localeOut>>

\* errorCauseChain, one turn of its loop
ErrorCauseChain ==
    /\ pc = "errorCauseChain"
    /\ nextCause # Undefined
    /\ Len(causeChain) < MaxCauseChain
    /\ causeChain' = Append(causeChain, normalizeError(nextCause))
    /\ nextCause' = IF IsError(nextCause) THEN nextCause.cause ELSE nextCause
    /\ UNCHANGED <<cwd, configFiles, messageFile, pc, configDir, config, commitMessage,
                   thrown, exitCode, stderr>>
    /\ UNCHANGED <<i18nVars, localeOut>>

\* formatError(error), given the cause chain
formatError(value, chain) ==
    value.message \o
    Join([i \in DOMAIN chain |-> <<": ">> \o chain[i].message], <<>>)

\* the loop of errorCauseChain has ended: console.error of the formatted
\* error, after the sign the command puts before it, and process.exit(1)
ReportError ==
    /\ pc = "errorCauseChain"
    /\ nextCause = Undefined
    /\ stderr' = <<"Error: ">> \o formatError(thrown, causeChain)
    /\ exitCode' = 1
    /\ pc' = "exited"
    /\ UNCHANGED <<cwd, configFiles, messageFile, configDir, config, commitMessage,
                   thrown, nextCause, causeChain>>
    /\ UNCHANGED <<i18nVars, localeOut>>

\* the working directories of the command: the root and directories below it
DirectoryNames == <<"home", "repo", "packages", "conventional">>

WorkingDirectories == {SubSeq(DirectoryNames, 1, depth) : depth \in 0..MaxDepth}

\* a directory and the directories above it, up to the root
AtOrAbove(directory) == {SubSeq(directory, 1, depth) : depth \in 0..Len(directory)}

Chars(n, ch) == [i \in 1..n |-> ch]

Good == <<"g", "o", "o", "d">>

\* validateCommitMessage of the tests: only the scope "good" is accepted
OnlyGoodScope ==
    Function([accepts |-> {Good},
              throws  |-> ErrorOf(<<"only \"good\" is accepted as a valid scope">>,
                                  Undefined)])

\* a validateCommitMessage that accepts nothing and throws `value`
Rejecting(value) == Function([accepts |-> {}, throws |-> value])

ConfigExporting(value) == [kind |-> "module", default |-> value]

WithValidate(function) == ConfigExporting(JsonObject(ValidateCommitMessageKey :> function))

\* the conventional.config.js files of the model: modules that export a
\* config, with and without validateCommitMessage; a validateCommitMessage
\* that throws what is no Error, or an Error with a cause that is an
\* Error, a string, null or an object; modules that export no config; a
\* file that cannot be imported, and one that cannot be looked at
ConfigFileKinds ==
    {ConfigExporting(JsonObject(<<>>)),
     WithValidate(OnlyGoodScope),
     WithValidate(Rejecting(JsonString(<<"n", "o">>))),
     WithValidate(Rejecting(ErrorOf(<<"rejected">>, ErrorOf(<<"by policy">>, Undefined)))),
     WithValidate(Rejecting(ErrorOf(<<"rejected">>, JsonString(<<"w", "h", "y">>)))),
     WithValidate(Rejecting(ErrorOf(<<"rejected">>, JsonNull))),
     WithValidate(Rejecting(ErrorOf(<<"rejected">>, JsonObject(<<>>)))),
     WithValidate(JsonString(<<"y", "e", "s">>)),
     ConfigExporting(JsonNumber(42)),
     ConfigExporting(JsonNull),
     [kind |-> "noDefault"],
     [kind |-> "throws", error |-> ErrorOf(<<"Unexpected token '='">>, Undefined)],
     [kind |-> "unreadable", code |-> "EACCES"]}

\* no config file, one config file in the working directory or above it,
\* or one in the working directory and another in the root
ConfigFilesFor(directory) ==
    {<<>>}
      \cup {at :> file : at \in AtOrAbove(directory), file \in ConfigFileKinds}
      \cup (IF directory = <<>> THEN {}
            ELSE {(directory :> WithValidate(OnlyGoodScope)) @@
                      (<<>> :> ConfigExporting(JsonObject(<<>>))),
                  (directory :> ConfigExporting(JsonObject(<<>>))) @@
                      (<<>> :> WithValidate(OnlyGoodScope))})

Feat == <<"f", "e", "a", "t">>

\* "feat(<scope>): "
FeatOf(scope) == Feat \o <<"(">> \o scope \o <<")", ":", Space>>

\* "BREAKING CHANGE: drops y"
BreakingFooter ==
    BREAKING_CHANGE_KEY \o <<":", Space, "d", "r", "o", "p", "s", Space, "y">>

\* the content of the message file
MessageInputs ==
    {\* "fixes an issue"
     <<"f", "i", "x", "e", "s", Space, "a", "n", Space, "i", "s", "s", "u", "e">>,
     \* "feat(good): add x"
     FeatOf(Good) \o <<"a", "d", "d", Space, "x">>,
     \* "Feat(BAD):  Adds  x."
     <<"F", "e", "a", "t", "(", "B", "A", "D", ")", ":", Space, Space,
       "A", "d", "d", "s", Space, Space, "x", ".">>,
     \* "feat: added x,"
     Feat \o <<":", Space, "a", "d", "d", "e", "d", Space, "x", ",">>,
     \* "feat(good): x" with the body "more,"
     FeatOf(Good) \o <<"x", NewLine, NewLine, "m", "o", "r", "e", ",">>,
     \* a summary line of 72 characters, and one of 73
     FeatOf(Good) \o Chars(MAX_LINE_LENGTH - 12, "x"),
     FeatOf(Good) \o Chars(MAX_LINE_LENGTH - 11, "x"),
     \* 77 characters that are 72 once spaces and punctuation are dropped
     FeatOf(Good) \o Chars(30, "x") \o <<Space, Space, Tab>>
                  \o Chars(MAX_LINE_LENGTH - 43, "x") \o <<".", ".", ".">>,
     \* 72 characters, and a BREAKING CHANGE footer that adds the "!"
     FeatOf(Good) \o Chars(MAX_LINE_LENGTH - 12, "x")
                  \o <<NewLine, NewLine>> \o BreakingFooter,
     \* 73 characters of a scope the validation of the tests rejects
     FeatOf(<<"b", "a", "d">>) \o Chars(MAX_LINE_LENGTH - 10, "x"),
     \* 73 characters and a body that ends with a comma
     FeatOf(Good) \o Chars(MAX_LINE_LENGTH - 11, "x")
                  \o <<NewLine, NewLine, "m", "o", "r", "e", ",">>,
     \* a comment, a wrapped body and two footers
     <<"#", Space, "n", "o", "t", "e", NewLine>>
        \o FeatOf(Good) \o <<"y", "!", NewLine, NewLine,
                             "s", "o", "m", "e", Space, "b", "o", "d", "y", NewLine,
                             "g", "o", "e", "s", Space, "o", "n", NewLine, NewLine,
                             "R", "e", "f", "s", ":", Space, "1", "2", NewLine,
                             "r", "e", "v", "i", "e", "w", "e", "d", "-", "B", "y", ":",
                             Space, "m", "e", NewLine>>,
     \* a BREAKING CHANGE footer with punctuation in it
     Feat \o <<"!", ":", Space, "x", NewLine, NewLine>>
          \o BREAKING_CHANGE_KEY \o <<":", Space, "n", "o", "!", Space, "y", "e", "s">>,
     \* a body of one line longer than the limit
     FeatOf(Good) \o <<"z", NewLine, NewLine>>
                  \o Chars(40, "w") \o <<Space>> \o Chars(40, "v") \o <<Space, "u">>}

\* the command has been started: main is at the first fs.stat of findConfig
InitCommand ==
    /\ NotConstructed
    /\ NoLocaleCall
    /\ \E directory \in WorkingDirectories :
          /\ cwd = directory
          /\ configFiles \in ConfigFilesFor(directory)
          /\ configDir = CwdPathname(directory)
    /\ messageFile \in MessageInputs
    /\ pc = "stat"
    /\ config = None
    /\ commitMessage = None
    /\ thrown = None
    /\ nextCause = None
    /\ causeChain = <<>>
    /\ exitCode = None
    /\ stderr = <<>>

NextCommand ==
    \/ FindConfigStat
    \/ FindConfigImport
    \/ ReadFile
    \/ ValidateCommitMessage
    \/ WriteFile
    \/ ErrorCauseChain
    \/ ReportError

SpecCommand == InitCommand /\ [][NextCommand]_vars

(***************************************************************************)
(* The properties.                                                         *)
(***************************************************************************)
\* what the constructor was given
DeclaredLocales == Range(ctor.options.supportedLocales)

DeclaredNamespaces == Range(ctor.options.namespaces)

\* a loadMessages call has been made by caller c with the locale given
ExplicitCall(c) ==
    /\ calls[c].status # "none"
    /\ calls[c].request.locale # Omitted

\* the locale string maximizes to what some declared locale maximizes to
MatchesDeclared(locale) ==
    \E declared \in DeclaredLocales : maximizeLocale(declared) = maximizeLocale(locale)

\* C1 (SpecCall): a loadMessages call with an explicit valid locale L that
\* maximizes to what some declared locale maximizes to, and with declared
\* namespaces, is rejected only by the failure of a fetch, stays pending only
\* while a fetch is in flight, and once resolved gives a translation function
\* whose locale() is maximizeLocale(L), whatever the shape of L.
C1_MatchingLocaleResolvesMaximized ==
    \A c \in Callers :
        LET call == calls[c]
        IN  (/\ ExplicitCall(c)
             /\ isValidRfc5646Locale(call.request.locale)
             /\ Range(call.request.namespaces) \subseteq DeclaredNamespaces
             /\ MatchesDeclared(call.request.locale))
            => /\ call.status = "rejected" => call.error.kind = "failedToLoadMessages"
               /\ call.status = "pending" => InFlight(call.fetches) # {}
               /\ call.status = "resolved" =>
                      call.locale = maximizeLocale(call.request.locale)

\* "en-US" requested of an engine that declares "en" has resolved to "en-Latn-US"
C1_Witness ==
    \E c \in Callers :
        /\ calls[c].status = "resolved"
        /\ calls[c].request.locale = <<"en", "US">>
        /\ <<"en">> \in DeclaredLocales
        /\ calls[c].locale = <<"en", "Latn", "US">>

\* C2 (SpecCall): a loadMessages call with an explicit valid locale L (and
\* declared namespaces) that maximizes to what no declared locale maximizes to
\* is rejected, without a fetch, with the error that names maximizeLocale(L)
\* and L; and a call that resolves never resolves to a locale other than
\* maximizeLocale(L), such as a supported one of the same language.
C2_UnmatchedLocaleRejected ==
    \A c \in Callers :
        LET call == calls[c]
        IN  /\ (/\ ExplicitCall(c)
                /\ isValidRfc5646Locale(call.request.locale)
                /\ Range(call.request.namespaces) \subseteq DeclaredNamespaces
                /\ ~MatchesDeclared(call.request.locale))
               => /\ call.status = "rejected"
                  /\ call.error = [kind      |-> "noDeclaredLocale",
                                   maximized |-> maximizeLocale(call.request.locale),
                                   requested |-> call.request.locale]
                  /\ call.fetches = <<>>
                  /\ TotalFetches = 0
            /\ (ExplicitCall(c) /\ call.status \in {"pending", "resolved"})
               => /\ MatchesDeclared(call.request.locale)
                  /\ call.locale = maximizeLocale(call.request.locale)

\* "en-Arab" requested of the engine that declares "en", "fr" and "fr-Arab"
\* has been rejected naming "en-Arab-US" and "en-Arab"
C2_Witness ==
    \E c \in Callers :
        /\ calls[c].status = "rejected"
        /\ DeclaredLocales = {<<"en">>, <<"fr">>, <<"fr", "Arab">>}
        /\ calls[c].request.locale = <<"en", "Arab">>
        /\ calls[c].error.kind = "noDeclaredLocale"
        /\ calls[c].error.maximized = <<"en", "Arab", "US">>
        /\ calls[c].error.requested = <<"en", "Arab">>

\* the pairs (maximized locale, namespace) of the cache
Pairs == DOMAIN fetchCount

Cached(pair) == Truthy(loadedMessages[pair[1]][pair[2]])

\* C3 as the specification states it (Spec): over the sequential calls of a
\* caller a pair once cached is not fetched again and stays cached, and each
\* pair is fetched from the source exactly once: never a second time, and
\* once when it is cached.
C3_EachPairFetchedExactlyOnce ==
    [][\A pair \in Pairs :
          /\ Cached(pair) =>
                /\ fetchCount'[pair] = fetchCount[pair]
                /\ Truthy(loadedMessages'[pair[1]][pair[2]])
          /\ fetchCount'[pair] <= 1
          /\ Truthy(loadedMessages'[pair[1]][pair[2]]) => fetchCount'[pair] = 1]_vars

\* C3 as the code has it (Spec): a pair once cached is never fetched again,
\* by whatever locale string of the same maximized form it is requested, and
\* its cache entry is never removed; a cached pair has been fetched at least
\* once, and may have been fetched more than once before it was cached.
C3_CachedPairNotFetchedAgain ==
    [][\A pair \in Pairs :
          /\ Cached(pair) =>
                /\ fetchCount'[pair] = fetchCount[pair]
                /\ Truthy(loadedMessages'[pair[1]][pair[2]])
          /\ Truthy(loadedMessages'[pair[1]][pair[2]]) => fetchCount'[pair] >= 1]_vars

\* after a call for "en" has fetched `common`, a call for "en-US" has
\* resolved from the cache: one fetch in all
C3_Witness ==
    \E c \in Callers :
        /\ calls[c].status = "resolved"
        /\ calls[c].request.locale = <<"en", "US">>
        /\ "common" \in calls[c].hits
        /\ fetchCount[<<"en", "Latn", "US">>, "common"] = 1
        /\ TotalFetches = 1

\* the dictionaries the source may serve for the fetch i of caller c
ServedDictionaries(c, i) ==
    {outcome.value :
        outcome \in {o \in SourceOutcomes(calls[c].fetches[i].url,
                                          calls[c].fetches[i].namespace) :
                        ~o.threw /\ isDictionary(o.value)}}

\* the fetches in flight for a pair
FetchesOf(pair) ==
    {ci \in Callers \X (1..(MaxRequested + 1)) :
        /\ calls[ci[1]].status \in {"pending", "rejected"}
        /\ ci[2] \in InFlight(calls[ci[1]].fetches)
        /\ maximizeLocale(calls[ci[1]].locale) = pair[1]
        /\ calls[ci[1]].fetches[ci[2]].namespace = pair[2]}

\* caller c starts a call in this step that gets as far as its fetches
StartsLoading(c) ==
    /\ calls[c].status # "pending"
    /\ calls'[c] # calls[c]
    /\ calls'[c].status \in {"pending", "resolved"}

\* C4 (Spec): the cache changes only by a fetch in flight for the pair whose
\* read gave a value that passed the dictionary check, and then holds that
\* value; a step in which a call is rejected by a failed fetch leaves the
\* cache as it was; a later call that needs a pair not in the cache fetches
\* it again, and a call resolves only with every pair it needs in the cache.
C4_FailedFetchStoresNothing ==
    [][/\ \A pair \in Pairs :
            loadedMessages'[pair[1]][pair[2]] # loadedMessages[pair[1]][pair[2]]
            => \E ci \in FetchesOf(pair) :
                  loadedMessages'[pair[1]][pair[2]] \in ServedDictionaries(ci[1], ci[2])
       /\ \A c \in Callers :
            /\ (/\ calls[c].status = "pending"
                /\ calls'[c].status = "rejected")
               => /\ calls'[c].error.kind = "failedToLoadMessages"
                  /\ loadedMessages' = loadedMessages
            /\ StartsLoading(c)
               => \A ns \in Range(calls'[c].request.namespaces) \cup {"common"} :
                     LET pair == <<maximizeLocale(calls'[c].locale), ns>>
                     IN  ~Cached(pair) => fetchCount'[pair] > fetchCount[pair]
            /\ (calls'[c] # calls[c] /\ calls'[c].status = "resolved")
               => \A ns \in Range(calls'[c].request.namespaces) \cup {"common"} :
                     /\ isDictionary(loadedMessages'[maximizeLocale(calls'[c].locale)][ns])
                     /\ isDictionary(calls'[c].messages[ns])]_vars

\* the fetch of `common` failed for one call and nothing was cached; a later
\* call fetched it again and resolved
C4_Witness ==
    \E c \in Callers :
        /\ calls[c].status = "resolved"
        /\ "common" \notin calls[c].hits
        /\ fetchCount[<<"en", "Latn", "US">>, "common"] = 2
        /\ Cached(<<<<"en", "Latn", "US">>, "common">>)

\* the {{name}} tokens of a template, as the specification reads them: a
\* token runs from "{{" to the next "}}"
NextClose(message, i) ==
    CHOOSE j \in ClosesFor(message, i) : \A k \in ClosesFor(message, i) : j <= k

\* the names of the tokens of the template from position `from` on
RECURSIVE TokenNames(_, _)
TokenNames(message, from) ==
    IF from > Len(message) THEN {}
    ELSE IF ~MatchesAt(message, from) THEN TokenNames(message, from + 1)
    ELSE {SubSeq(message, from + 2, NextClose(message, from) - 1)}
            \cup TokenNames(message, NextClose(message, from) + 2)

\* the template with each token replaced by the substitution of its name
RECURSIVE ReplaceEachToken(_, _, _)
ReplaceEachToken(message, substitutions, from) ==
    IF from > Len(message) THEN <<>>
    ELSE IF ~MatchesAt(message, from)
    THEN <<message[from]>> \o ReplaceEachToken(message, substitutions, from + 1)
    ELSE substitutions[SubSeq(message, from + 2, NextClose(message, from) - 1)]
            \o ReplaceEachToken(message, substitutions, NextClose(message, from) + 2)

\* t has been called with a key that selects a message template of `common`
CalledOnTemplate ==
    /\ tOut.status = "called"
    /\ Len(tOut.key) = 1
    /\ tOut.key \in DOMAIN calls[tOut.caller].messages["common"].entries
    /\ calls[tOut.caller].messages["common"].entries[tOut.key].type = "string"

TemplateCalled == calls[tOut.caller].messages["common"].entries[tOut.key].chars

\* C5 as the specification states it (SpecT), for a template and
\* substitutions that are not the empty string: when the substitutions define
\* every placeholder the template references, t returns the template with
\* each {{name}} token replaced by substitutions[name], for zero, one or
\* several tokens.
C5_EveryTokenReplaced ==
    (/\ CalledOnTemplate
     /\ TemplateCalled # <<>>
     /\ \A name \in DOMAIN tOut.substitutions : tOut.substitutions[name] # <<>>
     /\ TokenNames(TemplateCalled, 1) \subseteq DOMAIN tOut.substitutions)
    => tOut.result = Returned(ReplaceEachToken(TemplateCalled, tOut.substitutions, 1))

\* C6 as the specification states it (SpecT): when the template references
\* a placeholder the substitutions do not define, t throws the error that
\* names such a placeholder, and returns no string.
C6_MissingPlaceholderNamed ==
    (/\ CalledOnTemplate
     /\ TokenNames(TemplateCalled, 1) \ DOMAIN tOut.substitutions # {})
    => /\ tOut.result.threw
       /\ tOut.result.error.kind = "missingSubstitution"
       /\ tOut.result.error.placeholder
             \in TokenNames(TemplateCalled, 1) \ DOMAIN tOut.substitutions

\* the namespaces a translation function may look in: `common` and those
\* its loadMessages call named
NamespacesOfT == Range(calls[tOut.caller].request.namespaces) \cup {"common"}

\* C7 as the specification states it (SpecT): a key without a namespace
\* prefix is looked up in `common`; a key ns:path is looked up in ns when ns
\* is `common` or one of the namespaces of the loadMessages call; and a key
\* ns:path with any other ns fails with the error that names ns.
C7_KeyNamespaceResolved ==
    tOut.status = "called" =>
        LET key      == tOut.key
            messages == calls[tOut.caller].messages
            prefixed == Len(key) >= 3 /\ key[2] = ":"
        IN  /\ (key # <<>> /\ \A i \in DOMAIN key : key[i] # ":")
               => tOut.result = MessageAt(messages, "common", key, tOut.substitutions)
            /\ (prefixed /\ key[1] \in NamespacesOfT)
               => tOut.result = MessageAt(messages, key[1], SubSeq(key, 3, Len(key)),
                                          tOut.substitutions)
            /\ (prefixed /\ key[1] \notin NamespacesOfT)
               => /\ tOut.result.threw
                  /\ tOut.result.error.kind = "undeclaredKeyNamespace"
                  /\ tOut.result.error.namespace = key[1]

\* the value a dot path leads to in a dictionary, segment by segment;
\* undefined when a segment is missing
RECURSIVE ValueAtPath(_, _)
ValueAtPath(value, segments) ==
    IF segments = <<>> THEN value
    ELSE IF value.type = "object" /\ Head(segments) \in DOMAIN value.entries
    THEN ValueAtPath(value.entries[Head(segments)], Tail(segments))
    ELSE Undefined

\* C8 as the specification states it (SpecT): t(key), for a key of `common`,
\* returns a message only when the dot path of the key leads to a string
\* leaf; for a path that does not (a missing final or intermediate segment,
\* or a path that ends at a nested mapping) it fails with the "message not
\* found" error.
C8_UnresolvedPathNotFound ==
    (/\ tOut.status = "called"
     /\ tOut.key # <<>>
     /\ \A i \in DOMAIN tOut.key : tOut.key[i] # ":")
    => LET leaf == ValueAtPath(calls[tOut.caller].messages["common"],
                               SplitDots(tOut.key))
       IN  /\ ~tOut.result.threw => leaf.type = "string"
           /\ leaf.type # "string" =>
                 tOut.result = Threw(MessageNotFound("common", tOut.key))

\* C9 (SpecCall): a loadMessages call whose namespaces are not all declared
\* is rejected with the one error that names every undeclared namespace of
\* the request, each once and no declared one, whatever its locale; it has
\* started no fetch.
C9_UndeclaredNamespacesAllNamed ==
    \A c \in Callers :
        LET call == calls[c]
        IN  (/\ call.status # "none"
             /\ ~(Range(call.request.namespaces) \subseteq DeclaredNamespaces))
            => /\ call.status = "rejected"
               /\ call.error.kind = "undeclaredNamespaces"
               /\ Range(call.error.namespaces) =
                     Range(call.request.namespaces) \ DeclaredNamespaces
               /\ Len(call.error.namespaces) = Cardinality(Range(call.error.namespaces))
               /\ call.fetches = <<>>
               /\ TotalFetches = 0

\* a request for two namespaces of which neither is declared has been
\* rejected naming both
C9_Witness ==
    \E c \in Callers :
        /\ calls[c].status = "rejected"
        /\ calls[c].error.kind = "undeclaredNamespaces"
        /\ Len(calls[c].error.namespaces) = 2
        /\ Range(calls[c].error.namespaces) = Range(calls[c].request.namespaces)

\* the positions of a list that hold an invalid locale
InvalidPositions(list) == {i \in DOMAIN list : ~isValidRfc5646Locale(list[i])}

\* `named` lists the invalid entries of `list`, in the order of `list`
NamesInvalidEntries(named, list) ==
    /\ Len(named) = Cardinality(InvalidPositions(list))
    /\ \A k \in DOMAIN named :
          \E i \in InvalidPositions(list) :
              /\ Cardinality({j \in InvalidPositions(list) : j <= i}) = k
              /\ named[k] = list[i]

\* C10 (SpecNew): the constructor throws when supportedLocales is empty, and
\* throws when an entry is no valid locale, with the one error that names
\* the invalid entries, all of them and in the order of declaration, and no
\* valid entry; when it throws, no engine is produced.
C10_InvalidSupportedLocalesRejected ==
    ctor.status # "none" =>
        LET list == ctor.options.supportedLocales
        IN  /\ list = <<>> =>
                  /\ constructed = "threw"
                  /\ ctor.error.kind = "emptySupportedLocales"
            /\ InvalidPositions(list) # {} =>
                  /\ constructed = "threw"
                  /\ ctor.error.kind = "invalidSupportedLocales"
                  /\ NamesInvalidEntries(ctor.error.locales, list)
            /\ constructed = "threw" =>
                  /\ ctor.status = "threw"
                  /\ supportedLocales = <<>>
                  /\ DOMAIN loadedMessages = {}
                  /\ \A c \in Callers : calls[c] = None

\* a list of a valid locale and two invalid ones has been refused naming
\* the two invalid ones
C10_Witness ==
    /\ constructed = "threw"
    /\ ctor.options.supportedLocales = << <<"en", "GB@euro">>, <<"fr">>, <<"en_US">> >>
    /\ ctor.error.kind = "invalidSupportedLocales"
    /\ ctor.error.locales = << <<"en", "GB@euro">>, <<"en_US">> >>

\* the tokens a template lacks, anywhere in its text
MissingTokens(template) ==
    {token \in {":locale", ":namespace"} :
        \A i \in DOMAIN template.pathname : template.pathname[i] # token}
    \ Range(template.search)

\* the constructor was given a template, and supported locales it accepts
GivenTemplate ==
    /\ ctor.status # "none"
    /\ ctor.options.messagesUrlTemplate # OmittedUrl
    /\ ctor.options.supportedLocales # <<>>
    /\ InvalidPositions(ctor.options.supportedLocales) = {}

\* C11 (SpecNew): given supported locales it accepts and a template, the
\* constructor throws if and only if the template lacks `:locale` or
\* `:namespace`, and the error names the missing tokens, each once and no
\* other: both when both are missing, the one that is missing otherwise.
C11_MissingTokensNamed ==
    GivenTemplate =>
        LET missing == MissingTokens(ctor.options.messagesUrlTemplate)
        IN  /\ constructed = "threw" <=> missing # {}
            /\ constructed = "yes" <=> missing = {}
            /\ constructed = "threw" =>
                  /\ ctor.error.kind = "missingPlaceholders"
                  /\ Range(ctor.error.placeholders) = missing
                  /\ Len(ctor.error.placeholders) = Cardinality(missing)
            /\ constructed = "yes" =>
                  messagesUrlTemplate = ctor.options.messagesUrlTemplate

\* a template with neither token has been refused naming both
C11_Witness ==
    /\ GivenTemplate
    /\ constructed = "threw"
    /\ ctor.options.messagesUrlTemplate = Url("file:", <<"/some/path">>, <<>>)
    /\ ctor.error.placeholders = <<":locale", ":namespace">>

\* the place of the first declared locale that maximizes to `maximized`
FirstDeclaredAt(maximized) ==
    CHOOSE i \in DOMAIN ctor.options.supportedLocales :
        /\ maximizeLocale(ctor.options.supportedLocales[i]) = maximized
        /\ \A j \in 1..(i - 1) :
              maximizeLocale(ctor.options.supportedLocales[j]) # maximized

\* the locale strings isSupportedLocale is asked about
CandidateLocales ==
    {l \in DeclaredLocaleInputs \cup LocaleRequests : isValidRfc5646Locale(l)}

\* C12 (SpecNew): of an engine the constructor returned, supportedLocales()
\* lists the maximized form of every declared locale and nothing else, each
\* once, in the order of declaration, every entry with language, script and
\* region and equal to its own maximized form; the map keeps with each the
\* string as declared; and isSupportedLocale(c) is true exactly when
\* maximizeLocale(c) is in that list.
C12_SupportedLocalesMaximizedInOrder ==
    constructed = "yes" =>
        LET listed == supportedLocalesList
        IN  /\ Range(listed) = {maximizeLocale(d) : d \in DeclaredLocales}
            /\ \A i, j \in DOMAIN listed :
                  i < j => FirstDeclaredAt(listed[i]) < FirstDeclaredAt(listed[j])
            /\ \A i \in DOMAIN listed :
                  /\ isMaximizedLocale(listed[i])
                  /\ HasScript(listed[i]) /\ HasRegion(listed[i])
                  /\ supportedLocales[i].declaredAs \in DeclaredLocales
                  /\ maximizeLocale(supportedLocales[i].declaredAs) = listed[i]
            /\ \A c \in CandidateLocales :
                  /\ ~isSupportedLocale(c).threw
                  /\ isSupportedLocale(c).value <=> maximizeLocale(c) \in Range(listed)

\* the engine declared with "en", "fr", "fr-Arab" lists "en-Latn-US",
\* "fr-Latn-FR", "fr-Arab-FR"
C12_Witness ==
    /\ constructed = "yes"
    /\ ctor.options.supportedLocales = << <<"en">>, <<"fr">>, <<"fr", "Arab">> >>
    /\ supportedLocalesList =
          << <<"en", "Latn", "US">>, <<"fr", "Latn", "FR">>, <<"fr", "Arab", "FR">> >>
    /\ isSupportedLocale(<<"en", "US">>).value
    /\ ~isSupportedLocale(<<"en", "Arab">>).value

\* the pieces of a path with `:locale` and `:namespace` filled in, piece by piece
RECURSIVE FilledPath(_, _, _)
FilledPath(pieces, declared, namespace) ==
    IF pieces = <<>> THEN <<>>
    ELSE (CASE Head(pieces) = ":locale" -> LocaleText(declared)
            [] Head(pieces) = ":namespace" -> <<namespace>>
            [] OTHER -> <<Head(pieces)>>)
         \o FilledPath(Tail(pieces), declared, namespace)

\* the fetches a call has sent to the source
SentFetches(c) ==
    IF calls[c].status = "none" THEN {}
    ELSE {i \in DOMAIN calls[c].fetches : calls[c].fetches[i].url # OmittedUrl}

\* C13 (SpecCall): every fetch a loadMessages call sends goes to the
\* template's locator with `:locale` replaced by a declared locale, as it
\* was declared, that maximizes to what the requested locale maximizes to,
\* and `:namespace` replaced by the name of the namespace fetched; the rest
\* of the locator is the template's.
C13_LocatorUsesDeclaredLocale ==
    \A c \in Callers : \A i \in SentFetches(c) :
        LET call  == calls[c]
            fetch == call.fetches[i]
        IN  /\ ExplicitCall(c) => maximizeLocale(call.request.locale) = call.locale
            /\ fetch.namespace = Append(call.request.namespaces, "common")[i]
            /\ \E declared \in DeclaredLocales :
                  /\ maximizeLocale(declared) = call.locale
                  /\ fetch.url.pathname =
                        FilledPath(messagesUrlTemplate.pathname,
                                   declared, fetch.namespace)
                  /\ fetch.url.protocol = messagesUrlTemplate.protocol
                  /\ fetch.url.search = messagesUrlTemplate.search

\* "en-US" requested of the fixture engine that declares "en": drama is
\* fetched from /fixtures/base/en/drama.json
C13_Witness ==
    \E c \in Callers : \E i \in SentFetches(c) :
        /\ calls[c].request.locale = <<"en", "US">>
        /\ calls[c].fetches[i].namespace = "drama"
        /\ calls[c].fetches[i].url =
              Url("file:", <<"/fixtures/base/", "en", "/", "drama", ".json">>, <<>>)

\* a locale string that is a supported locale of the engine
IsSupported(locale) == isValidRfc5646Locale(locale) /\ MatchesDeclared(locale)

\* the locale auto-detection is to select in an environment, <<>> when
\* neither the page language nor a preferred language is supported
DetectionExpected(env) ==
    LET preferred == {i \in DOMAIN env.languages : IsSupported(env.languages[i])}
    IN  IF IsSupported(env.lang) THEN maximizeLocale(env.lang)
        ELSE IF preferred # {}
        THEN maximizeLocale(env.languages[CHOOSE i \in preferred :
                                              \A j \in preferred : i <= j])
        ELSE <<>>

\* C14 as the specification states it (SpecCall): a loadMessages call without
\* a locale (and with declared namespaces) in a browser-like environment uses
\* the maximized page language when that is a supported locale, otherwise
\* the first preferred language that is a supported locale, and fails only
\* when neither gives a supported locale (or a fetch fails).
C14_DetectedLocaleSelected ==
    \A c \in Callers :
        LET call == calls[c]
        IN  (/\ call.status # "none"
             /\ call.request.locale = Omitted
             /\ call.request.env.hasDocument
             /\ Range(call.request.namespaces) \subseteq DeclaredNamespaces)
            => LET expected == DetectionExpected(call.request.env)
               IN  /\ expected = <<>> => call.status = "rejected"
                   /\ expected # <<>> =>
                         /\ call.status = "rejected" =>
                                call.error.kind = "failedToLoadMessages"
                         /\ call.status # "rejected" => call.locale = expected

\* C15 as the specification states it (SpecCall): in a non-browser
\* environment a loadMessages call without a locale (and with declared
\* namespaces) is rejected at once, with no fetch started, by an error that
\* says the locale could not be detected in a non-browser environment and
\* asks whether a locale argument was supplied.
C15_NonBrowserOmissionRejected ==
    \A c \in Callers :
        LET call == calls[c]
        IN  (/\ call.status # "none"
             /\ call.request.locale = Omitted
             /\ ~call.request.env.hasDocument
             /\ Range(call.request.namespaces) \subseteq DeclaredNamespaces)
            => /\ call.status = "rejected"
               /\ call.fetches = <<>>
               /\ TotalFetches = 0
               /\ call.error.kind = "nonBrowserEnvironment"
               /\ "non-browser environment" \in Range(call.error.message)
               /\ "(did you supply a locale argument?)" \in Range(call.error.message)

\* C16 as the specification states it (SpecCall): the loader accepts a
\* payload only if it is an object that is neither null nor an array: what
\* a fetch gives to its call, what a call resolves with and what the cache
\* holds is an object, and a fetch of any other payload fails with the error
\* that includes the payload.
C16_OnlyObjectsAccepted ==
    /\ \A pair \in Pairs :
          Cached(pair) => loadedMessages[pair[1]][pair[2]].type = "object"
    /\ \A c \in Callers :
          /\ \A i \in SentFetches(c) :
                calls[c].fetches[i].state = "fulfilled"
                => calls[c].fetches[i].value.type = "object"
          /\ calls[c].status = "resolved"
             => \A ns \in DOMAIN calls[c].messages : calls[c].messages[ns].type = "object"
          /\ (calls[c].status = "rejected"
              /\ calls[c].error.kind = "failedToLoadMessages"
              /\ calls[c].error.cause.kind = "malformedMessages")
             => calls[c].error.cause.got.type \notin {"object", "undefined"}

\* the fetches of caller c that fail in this step
FailingFetches(c) ==
    {i \in InFlight(calls[c].fetches) :
        /\ calls'[c].fetches # <<>>
        /\ calls'[c].fetches[i].state = "rejected"}

\* the errors a fetch of caller c may end with
FetchErrors(c, i) ==
    {FetchResult(calls[c].fetches[i].url, outcome).error :
        outcome \in {o \in SourceOutcomes(calls[c].fetches[i].url,
                                          calls[c].fetches[i].namespace) :
                        FetchResult(calls[c].fetches[i].url, o).threw}}

\* C17 (Spec): a loadMessages call that resolves holds, for `common` and
\* for every namespace it requested, messages the loader accepted, and has
\* no fetch left in flight; when a fetch of a pending call fails, the call
\* is rejected in that step with the error that wraps the cause of that
\* fetch; and a rejected call stays rejected with that error whatever its
\* other fetches do: it never gives a translation function.
C17_AllNamespacesOrRejected ==
    [][\A c \in Callers :
          /\ calls'[c].status = "resolved" =>
                /\ DOMAIN calls'[c].messages =
                      Range(calls'[c].request.namespaces) \cup {"common"}
                /\ \A ns \in DOMAIN calls'[c].messages :
                      /\ isDictionary(calls'[c].messages[ns])
                      /\ Truthy(calls'[c].messages[ns])
                /\ calls'[c].fetches = <<>>
          /\ calls[c].status = "pending" =>
                \A i \in FailingFetches(c) :
                    /\ calls'[c].status = "rejected"
                    /\ calls'[c].error.kind = "failedToLoadMessages"
                    /\ calls'[c].error.cause \in FetchErrors(c, i)
          /\ (calls[c].status = "pending" /\ calls'[c].status = "resolved") =>
                \A i \in DOMAIN calls[c].fetches : calls[c].fetches[i].state # "rejected"
          /\ (calls[c].status = "rejected" /\ InFlight(calls[c].fetches) # {}) =>
                /\ calls'[c].status = "rejected"
                /\ calls'[c].error = calls[c].error]_vars

\* a call for `drama` and `common` has been rejected by the failure of one
\* fetch after its other fetch had succeeded
C17_Witness ==
    \E c \in Callers :
        /\ calls[c].status = "rejected"
        /\ calls[c].error.kind = "failedToLoadMessages"
        /\ \E i, j \in DOMAIN calls[c].fetches :
              /\ calls[c].fetches[i].state = "fulfilled"
              /\ calls[c].fetches[i].url # OmittedUrl
              /\ calls[c].fetches[j].state = "rejected"

\* C18 as the specification states it (SpecCall): an engine constructed in
\* node or Deno without a template fetches the messages of declared locale
\* D and namespace N from file://<working directory>/messages/D/N.json.
C18_DefaultServerLocator ==
    (/\ ctor.status = "returned"
     /\ ctor.options.messagesUrlTemplate = OmittedUrl
     /\ ctor.runtime \in {"node", "deno"})
    => \A c \in Callers : \A i \in SentFetches(c) :
          \E declared \in DeclaredLocales :
              /\ maximizeLocale(declared) = calls[c].locale
              /\ calls[c].fetches[i].url =
                    Url("file:",
                        Cwd \o <<"/messages/">> \o LocaleText(declared)
                            \o <<"/", calls[c].fetches[i].namespace, ".json">>,
                        <<>>)

\* the errors of request validation
ValidationErrors == {"undeclaredNamespaces", "invalidLocale", "noDeclaredLocale"}

\* the errors of a translation function
TranslationErrors ==
    {"malformedKey", "undeclaredKeyNamespace", "messageNotFound", "missingSubstitution"}

\* caller c makes a loadMessages call in this step that is rejected for its request
RejectedForRequest(c) ==
    /\ calls'[c] # calls[c]
    /\ calls'[c].status = "rejected"
    /\ calls'[c].error.kind \in ValidationErrors

\* caller c, whose last call was rejected for its request, makes a call in
\* this step with declared namespaces and a supported locale
CorrectedRequest(c) ==
    /\ calls[c].status = "rejected"
    /\ calls[c].error.kind \in ValidationErrors
    /\ calls'[c] # calls[c]
    /\ Range(calls'[c].request.namespaces) \subseteq DeclaredNamespaces
    /\ IsSupported(calls'[c].request.locale)

\* after a call of t that threw, t is called in this step with the key of
\* a message of `common` that has no placeholder
CorrectedKey ==
    /\ tOut.status = "called"
    /\ tOut.result.threw
    /\ tOut'.status = "called"
    /\ tOut'.key = <<"plain">>
    /\ ValueAtPath(calls[tOut'.caller].messages["common"], <<tOut'.key>>).type = "string"

\* C19 (Spec): a step in which a loadMessages call is rejected for its
\* request (undeclared namespace, invalid or unmatched locale), and a step
\* in which t throws for its key or substitutions, leave the supported
\* locales, the declared namespaces, the template and the cache as they
\* were and start no fetch; and the next call with a corrected request is
\* not rejected for it, the next t with a corrected key returns its message.
C19_FailedCallsLeaveEngineUnchanged ==
    [][/\ \A c \in Callers :
            /\ RejectedForRequest(c) =>
                  /\ UNCHANGED <<supportedLocales, namespaces, messagesUrlTemplate>>
                  /\ UNCHANGED <<loadedMessages, fetchCount>>
                  /\ calls'[c].fetches = <<>>
            /\ CorrectedRequest(c) =>
                  /\ calls'[c].status \in {"pending", "resolved"}
                  /\ calls'[c].locale = maximizeLocale(calls'[c].request.locale)
       /\ (tOut' # tOut /\ tOut'.status = "called" /\ tOut'.result.threw) =>
            /\ tOut'.result.error.kind \in TranslationErrors
            /\ UNCHANGED <<supportedLocales, namespaces, messagesUrlTemplate>>
            /\ UNCHANGED <<loadedMessages, fetchCount, calls>>
       /\ CorrectedKey => tOut'.result = Returned(<<"o", "k">>)]_vars

\* t has thrown "message not found" and the cache still holds the messages
\* it was created over
C19_Witness ==
    /\ tOut.status = "called"
    /\ tOut.result.threw
    /\ tOut.result.error.kind = "messageNotFound"
    /\ Cached(<<calls[tOut.caller].locale, "common">>)
    /\ calls[tOut.caller].messages["common"] =
          loadedMessages[calls[tOut.caller].locale]["common"]

\* what in a load failure says which namespace failed: the wrapping error
\* names it, or its cause carries the locator that was read
IdentifiesNamespace(error) ==
    \/ "namespace" \in DOMAIN error
    \/ "url" \in DOMAIN error.cause

\* C20 as the specification states it (SpecCall): every failure of a load
\* that rejects a loadMessages call (read error, bad network status, JSON
\* parse error, payload refused) carries what identifies the namespace that
\* failed, and a call whose load failed has no messages: no empty
\* dictionary stands in for the namespace.
C20_LoadFailureNamesNamespace ==
    \A c \in Callers :
        (calls[c].status = "rejected" /\ calls[c].error.kind = "failedToLoadMessages")
        => /\ IdentifiesNamespace(calls[c].error)
           /\ "messages" \notin DOMAIN calls[c]
           /\ \A i \in DOMAIN calls[c].fetches :
                 calls[c].fetches[i].state = "rejected"
                 => calls[c].fetches[i].value = Undefined

\* the documents the source may serve at the locator of (locale, namespace)
\* that #fetchMessages accepts
DocumentsAt(locale, namespace) ==
    LET url == SourceUrl(messagesUrlTemplate, DeclaredAsOf(locale), namespace)
    IN  {outcome.value : outcome \in
            {o \in SourceOutcomes(url, namespace) : ~FetchResult(url, o).threw}}

\* the documents the fetches of the call of caller c have been served for a
\* pair: those of its fulfilled fetches, which a resolved call holds as its
\* messages
FetchedBy(c, pair) ==
    IF "locale" \notin DOMAIN calls[c] \/ calls[c].locale # pair[1] THEN {}
    ELSE {calls[c].fetches[i].value :
            i \in {j \in DOMAIN calls[c].fetches :
                      /\ calls[c].fetches[j].namespace = pair[2]
                      /\ calls[c].fetches[j].state = "fulfilled"
                      /\ calls[c].fetches[j].url # OmittedUrl}}
         \cup (IF /\ calls[c].status = "resolved"
                  /\ pair[2] \in DOMAIN calls[c].messages
                  /\ pair[2] \notin calls[c].hits
               THEN {calls[c].messages[pair[2]]} ELSE {})

DocumentsServed(pair) == UNION {FetchedBy(c, pair) : c \in Callers}

AllCallsComplete ==
    \A c \in Callers :
        /\ calls[c].status \in {"resolved", "rejected"}
        /\ InFlight(calls[c].fetches) = {}

\* C22 (SpecConc): whatever the order in which two concurrent loadMessages
\* calls on one engine start and their fetches settle, each call may fetch
\* a pair the other fetches too, every call that resolves holds for each of
\* its namespaces a document the source serves at the locator of exactly
\* that (maximized locale, namespace) pair, whole and accepted by the
\* check of #fetchMessages, and the cache entry of a pair is undefined or
\* one of the documents the fetches of that pair were served: after all
\* calls have completed it is the one document they were served when the
\* source served them the same document, whichever fetch stored last.
C22_ConcurrentCallsStoreThePairsDocument ==
    /\ \A c \in Callers :
          calls[c].status = "resolved" =>
              \A ns \in DOMAIN calls[c].messages :
                  calls[c].messages[ns] \in DocumentsAt(calls[c].locale, ns)
    /\ \A pair \in Pairs :
          LET entry == loadedMessages[pair[1]][pair[2]]
          IN  /\ entry = Undefined \/ entry \in DocumentsAt(pair[1], pair[2])
              /\ entry # Undefined => isDictionary(entry)
              /\ AllCallsComplete =>
                    /\ DocumentsServed(pair) # {} => entry \in DocumentsServed(pair)
                    /\ Cardinality(DocumentsServed(pair)) = 1 =>
                          DocumentsServed(pair) = {entry}

\* two calls have resolved for one locale, each has fetched `common` (the
\* pair was fetched twice) and both hold the document the cache holds
C22_Witness ==
    /\ \A c \in Callers :
          /\ calls[c].status = "resolved"
          /\ calls[c].locale = maximizeLocale(<<"en">>)
          /\ "common" \notin calls[c].hits
          /\ calls[c].messages["common"] =
                loadedMessages[maximizeLocale(<<"en">>)]["common"]
    /\ Cardinality(Callers) = 2
    /\ fetchCount[<<maximizeLocale(<<"en">>), "common">>] = 2
    /\ calls[1].request.locale # calls[2].request.locale

\* a fetch of the call of caller c settles in this step
FetchSettles(c, i) ==
    /\ calls[c].status \in {"pending", "rejected"}
    /\ i \in InFlight(calls[c].fetches)
    /\ i \notin InFlight(calls'[c].fetches)

\* C23 as the specification states it (SpecCall): a fetch that settles
\* after its call was rejected is discarded, it changes nothing that can be
\* observed after the call.
C23_LateResultsDiscarded ==
    [][\A c \in Callers : \A i \in 1..(MaxRequested + 1) :
          (FetchSettles(c, i) /\ calls[c].status = "rejected")
          => UNCHANGED <<loadedMessages, engineVars>>]_vars

\* C23 (SpecCall): the first fetch of a call to fail rejects the call with
\* that failure as cause; the other fetches of the call stay in flight;
\* a fetch that settles after the rejection changes neither the call's
\* state nor its error and gives it no messages, whether it fails (and
\* stores nothing) or succeeds (and stores what it read in the cache entry
\* of its own pair, leaving every other entry as it was).
C23_FirstRejectionRejectsCall ==
    [][\A c \in Callers : \A i \in 1..(MaxRequested + 1) :
          FetchSettles(c, i) =>
              LET fetch   == calls[c].fetches[i]
                  settled == calls'[c].fetches[i]
                  locale  == calls[c].locale
              IN  /\ calls'[c].status # "resolved"
                     => /\ InFlight(calls'[c].fetches) = InFlight(calls[c].fetches) \ {i}
                        /\ settled.state = "rejected"
                           => /\ calls'[c].status = "rejected"
                              /\ calls'[c].error.kind = "failedToLoadMessages"
                              /\ UNCHANGED loadedMessages
                        /\ settled.state = "fulfilled"
                           => loadedMessages' =
                                [loadedMessages EXCEPT
                                    ![locale][fetch.namespace] = settled.value]
                  /\ calls[c].status = "rejected"
                     => /\ calls'[c].status = "rejected"
                        /\ calls'[c].error = calls[c].error
                        /\ "messages" \notin DOMAIN calls'[c]
                  /\ \A pair \in Pairs \ {<<locale, fetch.namespace>>} :
                        loadedMessages'[pair[1]][pair[2]] = loadedMessages[pair[1]][pair[2]]
                  /\ UNCHANGED engineVars]_vars

\* a call was rejected by the failure of one fetch, and another fetch of it
\* has given messages, which the cache holds
C23_Witness ==
    \E c \in Callers :
        /\ calls[c].status = "rejected"
        /\ calls[c].error.kind = "failedToLoadMessages"
        /\ \E i, j \in DOMAIN calls[c].fetches :
              /\ calls[c].fetches[i].state = "rejected"
              /\ calls[c].fetches[j].state = "fulfilled"
              /\ calls[c].fetches[j].url # OmittedUrl
              /\ loadedMessages[calls[c].locale][calls[c].fetches[j].namespace] =
                    calls[c].fetches[j].value

\* the maximized forms that two distinct declared locales share
SharedForms ==
    {maximized \in SupportedKeys :
        Cardinality({d \in DeclaredLocales : maximizeLocale(d) = maximized}) > 1}

\* of the declared locales of one maximized form, the one declared last
LastDeclared(maximized) ==
    LET declared == ctor.options.supportedLocales
        at == CHOOSE i \in DOMAIN declared :
                 /\ maximizeLocale(declared[i]) = maximized
                 /\ \A j \in DOMAIN declared :
                       maximizeLocale(declared[j]) = maximized => j <= i
    IN  declared[at]

\* caller c calls loadMessages in this step, with a locale of the form `maximized`
CallsFor(c, maximized) ==
    /\ calls[c].status = "none"
    /\ calls'[c].status # "none"
    /\ maximizeLocale(calls'[c].request.locale) = maximized

\* C24 (SpecConc): of an engine declared with two distinct locales of one
\* maximized form, the constructor has returned, supportedLocales() lists
\* that form once, the string kept as declared for it is the one declared
\* last, every call whose locale maximizes to the form - in either
\* spelling - resolves to the form, is answered from the form's cache entry
\* when it holds the namespace (no fetch is sent), and otherwise fetches
\* from the locator built with the locale declared last.
C24_SharedFormDeclaredLastWins ==
    [][\A maximized \in SharedForms :
          /\ constructed = "yes"
          /\ Cardinality({i \in DOMAIN supportedLocalesList :
                             supportedLocalesList[i] = maximized}) = 1
          /\ DeclaredAsOf(maximized) = LastDeclared(maximized)
          /\ \A c \in Callers :
                CallsFor(c, maximized) =>
                    /\ calls'[c].status \in {"pending", "resolved"}
                    /\ calls'[c].locale = maximized
                    /\ \A ns \in Range(calls'[c].request.namespaces) \cup {"common"} :
                          Cached(<<maximized, ns>>) =>
                              /\ ns \in calls'[c].hits
                              /\ fetchCount'[<<maximized, ns>>] = fetchCount[<<maximized, ns>>]
                    /\ \A i \in InFlight(calls'[c].fetches) :
                          calls'[c].fetches[i].url.pathname =
                              FilledPath(messagesUrlTemplate.pathname,
                                         LastDeclared(maximized),
                                         calls'[c].fetches[i].namespace)]_vars

\* of the engine declared with "en" and "en-US": one call for "en" has
\* fetched `common` from .../en-US/common.json, the call for "en-US" was
\* answered from the same cache entry, and the pair was fetched once
C24_Witness ==
    /\ ctor.options.supportedLocales = << <<"en">>, <<"en", "US">> >>
    /\ supportedLocalesList = << <<"en", "Latn", "US">> >>
    /\ DeclaredAsOf(<<"en", "Latn", "US">>) = <<"en", "US">>
    /\ \E c, d \in Callers :
          /\ calls[c].status = "resolved" /\ calls[d].status = "resolved"
          /\ calls[c].request.locale = <<"en">>
          /\ calls[d].request.locale = <<"en", "US">>
          /\ "common" \notin calls[c].hits
          /\ "common" \in calls[d].hits
          /\ calls[d].messages["common"] = calls[c].messages["common"]
          /\ calls[c].messages["common"] =
                FileBody(Url("file:", <<"/fixtures/base/", "en", "-", "US", "/",
                                      "common", ".json">>, <<>>), "common")
          /\ fetchCount[<<(<<"en", "Latn", "US">>), "common">>] = 1

\* C25 (SpecLocale): maximizeLocale(s) returns for every valid locale
\* identifier s, and what it returns is its own maximized form -
\* maximizeLocale of it returns it again, isMaximizedLocale of it is true;
\* maximizeLocale(s) throws for every s that is not a valid locale
\* identifier.
C25_MaximizeLocaleIdempotent ==
    (localeOut.status = "called" /\ localeOut.function = "maximizeLocale") =>
        IF isValidRfc5646Locale(localeOut.locale)
        THEN /\ ~localeOut.result.threw
             /\ MaximizeLocaleCall(localeOut.result.value) = localeOut.result
             /\ IsMaximizedLocaleCall(localeOut.result.value) = Returned(TRUE)
        ELSE localeOut.result.threw

\* maximizeLocale("zh-TW") has returned "zh-Hant-TW"
C25_Witness ==
    /\ localeOut.status = "called"
    /\ localeOut.function = "maximizeLocale"
    /\ localeOut.locale = <<"zh", "TW">>
    /\ localeOut.result = Returned(<<"zh", "Hant", "TW">>)

\* C26 as the specification states it (SpecCall, where the one caller calls
\* loadMessages once): the call fetches each (maximized locale, namespace)
\* pair from the source at most once, also when its namespaces list names
\* a namespace twice.
C26_PairFetchedOncePerCall ==
    \A c \in Callers : \A pair \in Pairs :
        calls[c].status # "none" => fetchCount[pair] <= 1

\* C27 as the specification states it (SpecCall): of an engine the
\* constructor has accepted the template of, no locator fetched still
\* contains `:locale` or `:namespace`, in its path or in its query.
C27_NoTokenLeftInLocator ==
    \A c \in Callers : \A i \in SentFetches(c) :
        /\ ~UrlIncludes(calls[c].fetches[i].url, ":locale")
        /\ ~UrlIncludes(calls[c].fetches[i].url, ":namespace")


\* the parsed message has been handed to the validateCommitMessage of the
\* config, if it has one, and was not rejected by it
ValidationPassed ==
    /\ commitMessage # None
    /\ pc \in {"writeFile", "errorCauseChain", "exited"}
    /\ ~CallValidateCommitMessage(config, commitMessage).threw

SummaryIsTooLong ==
    commitMessage # None /\ Len(SummaryLine(commitMessage)) > MAX_LINE_LENGTH

LengthErrorReported ==
    /\ pc = "exited"
    /\ exitCode = 1
    /\ thrown = SummaryTooLong
    /\ stderr = <<"Error: ">> \o SummaryTooLong.message

RECURSIVE CausesOf(_)
CausesOf(value) ==
    IF ~IsError(value) \/ value.cause = Undefined THEN 0
    ELSE 1 + CausesOf(value.cause)

\* C28: formatError terminates for every Error whatever its cause chain,
\* a cause that is no Error included, and returns the message followed
\* by the message of each cause in chain order: the chain that
\* errorCauseChain collects never has more entries than the error has
\* causes.
C28_CauseChainHasTheCausesOnly ==
    pc = "errorCauseChain" => Len(causeChain) <= CausesOf(thrown)

\* findConfig has returned DEFAULT_CONFIG: the loop has ended at the root
\* without a file having been imported
ReturnedDefault == config = DEFAULT_CONFIG /\ configDir = RootPathname

\* C29: findConfig returns DEFAULT_CONFIG only when no directory on the
\* path from the working directory up to and including the file system
\* root contains conventional.config.js.
C29_DefaultOnlyWhenNoFileUpToRoot ==
    ReturnedDefault => \A directory \in AtOrAbove(cwd) : directory \notin DOMAIN configFiles


\* C30: the message file is rewritten only by the step that follows a
\* successful parse, validation and serialization and that ends the
\* command with exit code 0, with the serialized message; no step that
\* ends the command with exit code 1 changes the file, and nothing
\* happens after the command has ended.
C30_FileRewrittenOnlyAfterSuccess ==
    [][/\ pc # "exited"
       /\ messageFile' # messageFile =>
             /\ pc = "writeFile"
             /\ ~parseCommitMessage(messageFile).threw
             /\ commitMessage = parseCommitMessage(messageFile).value
             /\ ~CallValidateCommitMessage(config, commitMessage).threw
             /\ ~serializeCommitMessage(commitMessage).threw
             /\ messageFile' = serializeCommitMessage(commitMessage).value
             /\ exitCode' = 0
             /\ pc' = "exited"
       /\ (pc' = "exited" /\ exitCode' = 1) =>
             messageFile' = messageFile /\ messageFile \in MessageInputs
       /\ pc' # "exited" => messageFile' = messageFile /\ messageFile \in MessageInputs]_vars

\* "Feat(BAD):  Adds  x." has been written back as "feat(bad): adds x"
C30_Witness ==
    /\ pc = "exited"
    /\ exitCode = 0
    /\ commitMessage.scope = <<"b", "a", "d">>
    /\ messageFile = <<"f", "e", "a", "t", "(", "b", "a", "d", ")", ":", Space,
                       "a", "d", "d", "s", Space, "x">>

====
